---- MODULE Spec2Model ----
(***************************************************************************)
(* Device runtime of the heat pump monitor: the offline ring buffer        *)
(* (buffer.cpp), the publisher's drain (mqtt.cpp), the alert evaluator     *)
(* with its per-type cooldown (alerts.cpp) and the two loop() tasks that   *)
(* drive them (firmware.ino).                                              *)
(*                                                                         *)
(* Time is counted in abstract clock units.  `clock' is the time elapsed   *)
(* since boot; millis() is clock modulo the width of unsigned long, here   *)
(* scaled down to ClockMod units so that a wraparound is reachable.        *)
(* Sensor values are the floats returned by the conversion functions,      *)
(* taken at integer points; NaN is a separate value that fails every       *)
(* comparison.                                                             *)
(***************************************************************************)
EXTENDS Integers, Sequences, FiniteSets, TLC

\* ------------------------------------------------------------------------
\* Bounds of the model
\* ------------------------------------------------------------------------
\* capacity of the ring (config.h BUFFER_SIZE is 100; scaled down)
BUFFER_SIZE == 3
\* acquisition cycles taken in one behaviour
MaxReadings == 5
\* modulus of millis() (2^32 ms on the device; scaled down)
ClockMod == 6
\* cooldown window in clock units (config.h ALERT_COOLDOWN is 300000 ms)
ALERT_COOLDOWN == 2
\* the behaviour is cut when the clock reaches this value
MaxClock == 7
\* longest time a blocking sendSMS takes, in clock units
MaxSmsDelay == 1
\* evaluator calls followed in one behaviour of the alert specification
MaxChecks == 3
\* retry intervals of the two network paths and period of the publish
\* cycle (config.h: 60 s, 60 s and 10 s; scaled down to clock units)
WIFI_RETRY_INTERVAL == 3
GPRS_RETRY_INTERVAL == 3
MQTT_PUBLISH_INTERVAL == 1
\* snapshots acquired in one behaviour of the transport specification
MaxQueued == 2
\* inserts made in one behaviour of the buffer specification
MaxInserts == 5
\* periods of the other loop() timers (config.h: sensor read 10 s, SMS poll
\* 5 s; the heartbeat's 5000 ms is a literal of loop(); scaled down)
SENSOR_READ_INTERVAL == 3
SMS_CHECK_INTERVAL == 2
BLINK_INTERVAL == 2
\* most blanks put in front of and behind a command text
MaxPad == 1
\* acquisition cycles between two boots in the command specification
MaxCycles == 4
\* longest setup(), in clock units
MaxSetup == 3
\* messages of the command topic handled between two publish cycles
MaxMessages == 1

\* ------------------------------------------------------------------------
\* Offline buffer (buffer.cpp)
\* ------------------------------------------------------------------------
Slots == 0 .. (BUFFER_SIZE - 1)

\* a stored snapshot is identified by its acquisition number; 0 is the
\* default-constructed SystemData of an unused slot
NoItem == 0

initBuffer ==
    [readings |-> [i \in Slots |-> NoItem],
     head |-> 0, tail |-> 0, count |-> 0, overflow |-> FALSE]

\* bufferData with the head index left where it was: the new item lands on
\* the slot of the previous one
bufferData_noAdvance(b, data) ==
    LET full == b.count >= BUFFER_SIZE
        b1 == IF full
              THEN [b EXCEPT !.overflow = TRUE,
                             !.tail = (b.tail + 1) % BUFFER_SIZE,
                             !.count = b.count - 1]
              ELSE b
    IN [b1 EXCEPT !.readings[b1.head] = data,
                  !.count = b1.count + 1]

\* bufferData that refuses the insert when the ring is full
bufferData_dropNewest(b, data) ==
    IF b.count >= BUFFER_SIZE
    THEN [b EXCEPT !.overflow = TRUE]
    ELSE [b EXCEPT !.readings[b.head] = data,
                   !.head = (b.head + 1) % BUFFER_SIZE,
                   !.count = b.count + 1]

bufferData(b, data) ==
    LET full == b.count >= BUFFER_SIZE
        b1 == IF full
              THEN [b EXCEPT !.overflow = TRUE,
                             !.tail = (b.tail + 1) % BUFFER_SIZE,
                             !.count = b.count - 1]
              ELSE b
    IN [b1 EXCEPT !.readings[b1.head] = data,
                  !.head = (b1.head + 1) % BUFFER_SIZE,
                  !.count = b1.count + 1]

bufferHasData(b) == b.count > 0

bufferCount(b) == b.count

\* getNextBufferedData handing out the newest item instead of the oldest
getNextBufferedData_newest(b) ==
    IF b.count = 0 THEN NoItem
    ELSE b.readings[(b.head + BUFFER_SIZE - 1) % BUFFER_SIZE]

\* getNextBufferedData without the test for an empty ring
getNextBufferedData_noEmptyCheck(b) == b.readings[b.tail]

\* the item at tail, or NoItem for the nullptr result
getNextBufferedData(b) ==
    IF b.count = 0 THEN NoItem ELSE b.readings[b.tail]

\* markDataPublished counting the item out without moving tail
markDataPublished_noAdvance(b) ==
    IF b.count > 0 THEN [b EXCEPT !.count = b.count - 1] ELSE b

\* markDataPublished taking an emptied ring for a fresh one
markDataPublished_clearsOverflow(b) ==
    IF b.count > 0
    THEN [b EXCEPT !.tail = (b.tail + 1) % BUFFER_SIZE,
                   !.count = b.count - 1,
                   !.overflow = IF b.count = 1 THEN FALSE ELSE @]
    ELSE b

\* markDataPublished with the tail index running past the end of the array
markDataPublished_noWrap(b) ==
    IF b.count > 0
    THEN [b EXCEPT !.tail = b.tail + 1,
                   !.count = b.count - 1]
    ELSE b

\* markDataPublished without the test of count
markDataPublished_unguarded(b) ==
    [b EXCEPT !.tail = (b.tail + 1) % BUFFER_SIZE, !.count = b.count - 1]

markDataPublished(b) ==
    IF b.count > 0
    THEN [b EXCEPT !.tail = (b.tail + 1) % BUFFER_SIZE,
                   !.count = b.count - 1]
    ELSE b

clearBuffer(b) ==
    [b EXCEPT !.head = 0, !.tail = 0, !.count = 0, !.overflow = FALSE]

resetOverflowFlag(b) == [b EXCEPT !.overflow = FALSE]

\* the buffered items read oldest-first
Contents(b) ==
    [i \in 1 .. b.count |-> b.readings[(b.tail + i - 1) % BUFFER_SIZE]]


\* ------------------------------------------------------------------------
\* Configuration (config.h), values in volts, degrees C, PSI and amperes
\* ------------------------------------------------------------------------
VOLTAGE_HIGH_CRITICAL == 250
VOLTAGE_HIGH_WARNING == 245
VOLTAGE_LOW_WARNING == 215
VOLTAGE_LOW_CRITICAL == 210
COMP_TEMP_CRITICAL == 95
COMP_TEMP_WARNING == 85
PRESSURE_HIGH_CRITICAL == 450
PRESSURE_HIGH_WARNING == 400
PRESSURE_LOW_CRITICAL == 20
PRESSURE_LOW_WARNING == 40
CURRENT_CRITICAL == 15
CURRENT_WARNING == 12
TEMP_MIN_VALID == -40
TEMP_MAX_VALID == 125
VOLTAGE_MIN_VALID == 0
VOLTAGE_MAX_VALID == 300
CURRENT_MIN_VALID == 0
CURRENT_MAX_VALID == 25
PRESSURE_MIN_VALID == 0
PRESSURE_MAX_VALID == 500

\* ------------------------------------------------------------------------
\* Types (types.h)
\* ------------------------------------------------------------------------
ALERT_OK == "ALERT_OK"
ALERT_WARNING == "ALERT_WARNING"
ALERT_CRITICAL == "ALERT_CRITICAL"
AlertLevel == {ALERT_OK, ALERT_WARNING, ALERT_CRITICAL}

ALERT_VOLTAGE_HIGH == "ALERT_VOLTAGE_HIGH"
ALERT_VOLTAGE_LOW == "ALERT_VOLTAGE_LOW"
ALERT_COMPRESSOR_TEMP == "ALERT_COMPRESSOR_TEMP"
ALERT_PRESSURE_HIGH == "ALERT_PRESSURE_HIGH"
ALERT_PRESSURE_LOW == "ALERT_PRESSURE_LOW"
ALERT_OVERCURRENT == "ALERT_OVERCURRENT"
AlertType == {ALERT_VOLTAGE_HIGH, ALERT_VOLTAGE_LOW, ALERT_COMPRESSOR_TEMP,
              ALERT_PRESSURE_HIGH, ALERT_PRESSURE_LOW, ALERT_OVERCURRENT}

\* the float NAN returned by readTemperature; it fails every comparison
NaN == -9999
isnan(x) == x = NaN
Geq(x, y) == ~isnan(x) /\ x >= y
Leq(x, y) == ~isnan(x) /\ x <= y

\* SensorReading(): value 0, ALERT_OK, not valid
SensorReading == [value |-> 0, alertLevel |-> ALERT_OK, valid |-> FALSE]

\* the readings of SystemData the alert evaluator looks at; a snapshot is
\* told from the others by its acquisition number, not by readingTime
SystemData ==
    [voltage |-> SensorReading, tempCompressor |-> SensorReading,
     pressureHigh |-> SensorReading, pressureLow |-> SensorReading,
     current |-> SensorReading, power |-> 0, compressorRunning |-> FALSE]

\* ------------------------------------------------------------------------
\* Sensor acquisition (sensors.cpp)
\* ------------------------------------------------------------------------
isValidReading(value, minValid, maxValid) ==
    ~isnan(value) /\ value >= minValid /\ value <= maxValid

\* the current above which the compressor is taken to be running
RUNNING_CURRENT == 1

\* readAllSensors computing power from whatever was read
readAllSensors_powerAlways(raw) ==
    LET vValid == isValidReading(raw.voltage, VOLTAGE_MIN_VALID, VOLTAGE_MAX_VALID)
        cValid == isValidReading(raw.current, CURRENT_MIN_VALID, CURRENT_MAX_VALID)
        reading(value, valid) ==
            [value |-> value, alertLevel |-> ALERT_OK, valid |-> valid]
    IN [voltage |-> reading(raw.voltage, vValid),
        tempCompressor |->
           reading(raw.tempCompressor,
                   isValidReading(raw.tempCompressor, TEMP_MIN_VALID, TEMP_MAX_VALID)),
        pressureHigh |->
           reading(raw.pressureHigh,
                   isValidReading(raw.pressureHigh, PRESSURE_MIN_VALID,
                                  PRESSURE_MAX_VALID)),
        pressureLow |->
           reading(raw.pressureLow,
                   isValidReading(raw.pressureLow, PRESSURE_MIN_VALID,
                                  PRESSURE_MAX_VALID)),
        current |-> reading(raw.current, cValid),
        power |-> IF isnan(raw.voltage) \/ isnan(raw.current) THEN NaN
                  ELSE raw.voltage * raw.current,
        compressorRunning |-> cValid /\ raw.current > RUNNING_CURRENT]

\* raw holds what readTemperature, readVoltageRMS, readCurrentRMS and
\* readPressure returned in this cycle
readAllSensors(raw) ==
    [voltage |->
        [value |-> raw.voltage, alertLevel |-> ALERT_OK,
         valid |-> isValidReading(raw.voltage, VOLTAGE_MIN_VALID, VOLTAGE_MAX_VALID)],
     tempCompressor |->
        [value |-> raw.tempCompressor, alertLevel |-> ALERT_OK,
         valid |-> isValidReading(raw.tempCompressor, TEMP_MIN_VALID, TEMP_MAX_VALID)],
     pressureHigh |->
        [value |-> raw.pressureHigh, alertLevel |-> ALERT_OK,
         valid |-> isValidReading(raw.pressureHigh, PRESSURE_MIN_VALID, PRESSURE_MAX_VALID)],
     pressureLow |->
        [value |-> raw.pressureLow, alertLevel |-> ALERT_OK,
         valid |-> isValidReading(raw.pressureLow, PRESSURE_MIN_VALID, PRESSURE_MAX_VALID)],
     current |->
        [value |-> raw.current, alertLevel |-> ALERT_OK,
         valid |-> isValidReading(raw.current, CURRENT_MIN_VALID, CURRENT_MAX_VALID)],
     power |->
        IF /\ isValidReading(raw.voltage, VOLTAGE_MIN_VALID, VOLTAGE_MAX_VALID)
           /\ isValidReading(raw.current, CURRENT_MIN_VALID, CURRENT_MAX_VALID)
        THEN raw.voltage * raw.current
        ELSE 0,
     compressorRunning |->
        /\ isValidReading(raw.current, CURRENT_MIN_VALID, CURRENT_MAX_VALID)
        /\ raw.current > RUNNING_CURRENT]

\* ------------------------------------------------------------------------
\* Alert evaluator (alerts.cpp)
\* ------------------------------------------------------------------------
initAlerts ==
    [lastAlertTime |-> [t \in AlertType |-> 0],
     alertActive |-> [t \in AlertType |-> FALSE]]

\* checkVoltage: the level and the direction written through isHigh
checkVoltage(voltage) ==
    IF Geq(voltage, VOLTAGE_HIGH_CRITICAL)
        THEN [level |-> ALERT_CRITICAL, isHigh |-> TRUE]
    ELSE IF Geq(voltage, VOLTAGE_HIGH_WARNING)
        THEN [level |-> ALERT_WARNING, isHigh |-> TRUE]
    ELSE IF Leq(voltage, VOLTAGE_LOW_CRITICAL)
        THEN [level |-> ALERT_CRITICAL, isHigh |-> FALSE]
    ELSE IF Leq(voltage, VOLTAGE_LOW_WARNING)
        THEN [level |-> ALERT_WARNING, isHigh |-> FALSE]
    ELSE [level |-> ALERT_OK, isHigh |-> FALSE]

checkCompressorTemp(temp) ==
    IF Geq(temp, COMP_TEMP_CRITICAL) THEN ALERT_CRITICAL
    ELSE IF Geq(temp, COMP_TEMP_WARNING) THEN ALERT_WARNING
    ELSE ALERT_OK

checkPressureHigh(pressure) ==
    IF Geq(pressure, PRESSURE_HIGH_CRITICAL) THEN ALERT_CRITICAL
    ELSE IF Geq(pressure, PRESSURE_HIGH_WARNING) THEN ALERT_WARNING
    ELSE ALERT_OK

checkPressureLow(pressure) ==
    IF Leq(pressure, PRESSURE_LOW_CRITICAL) THEN ALERT_CRITICAL
    ELSE IF Leq(pressure, PRESSURE_LOW_WARNING) THEN ALERT_WARNING
    ELSE ALERT_OK

checkCurrent(current) ==
    IF Geq(current, CURRENT_CRITICAL) THEN ALERT_CRITICAL
    ELSE IF Geq(current, CURRENT_WARNING) THEN ALERT_WARNING
    ELSE ALERT_OK

\* millis(): the clock reduced to the width of unsigned long
millis(clk) == clk % ClockMod

\* canSendAlert without the overflow branch: plain unsigned subtraction
canSendAlert_noWrapBranch(cool, type, now) ==
    [ok |-> ((now - cool.lastAlertTime[type]) % ClockMod) >= ALERT_COOLDOWN,
     cool |-> cool]

\* canSendAlert with a strict comparison against the window
canSendAlert_strict(cool, type, now) ==
    LET lastAlert == cool.lastAlertTime[type]
    IN IF now < lastAlert
       THEN [ok |-> TRUE, cool |-> [cool EXCEPT !.lastAlertTime[type] = 0]]
       ELSE [ok |-> (now - lastAlert) > ALERT_COOLDOWN, cool |-> cool]

\* canSendAlert: the answer and the cooldown table it leaves behind
canSendAlert(cool, type, now) ==
    LET lastAlert == cool.lastAlertTime[type]
    IN IF now < lastAlert
       THEN [ok |-> TRUE, cool |-> [cool EXCEPT !.lastAlertTime[type] = 0]]
       ELSE [ok |-> (now - lastAlert) >= ALERT_COOLDOWN, cool |-> cool]

\* recordAlertSent with one entry shared by the two voltage conditions
recordAlertSent_sharedVoltageEntry(cool, type, now) ==
    IF type \in {ALERT_VOLTAGE_HIGH, ALERT_VOLTAGE_LOW}
    THEN [cool EXCEPT !.lastAlertTime[ALERT_VOLTAGE_HIGH] = now,
                      !.lastAlertTime[ALERT_VOLTAGE_LOW] = now,
                      !.alertActive[ALERT_VOLTAGE_HIGH] = TRUE,
                      !.alertActive[ALERT_VOLTAGE_LOW] = TRUE]
    ELSE [cool EXCEPT !.lastAlertTime[type] = now, !.alertActive[type] = TRUE]

recordAlertSent(cool, type, now) ==
    [cool EXCEPT !.lastAlertTime[type] = now, !.alertActive[type] = TRUE]

\* resetAlertCooldown that also restarts the cooldown clock
resetAlertCooldown_resetsTime(cool, type) ==
    [cool EXCEPT !.alertActive[type] = FALSE, !.lastAlertTime[type] = 0]

resetAlertCooldown(cool, type) ==
    IF cool.alertActive[type]
    THEN [cool EXCEPT !.alertActive[type] = FALSE]
    ELSE cool

\* "no notification yet" in a table of notification times
Never == 0 - 1

\* One parameter of checkAllAlerts after its level has been written to the
\* snapshot: the `CRITICAL && canSendAlert' test, the blocking sendSMS and
\* recordAlertSent, or the reset of the types in `clear' when the level is
\* ALERT_OK.  ctx carries the cooldown table and the clock through the call
\* together with a log of it: gate (the canSendAlert calls), attempted (the
\* types handed to sendSMS), notified (those whose sendSMS succeeded) and
\* sent (the clock at which each of those was handed over).
\* smsOk and smsDelay are the result and the duration of sendSMS.
RECURSIVE resetAll(_, _)
resetAll(cool, types) ==
    IF types = {} THEN cool
    ELSE LET t == CHOOSE x \in types : TRUE
         IN resetAll(resetAlertCooldown(cool, t), types \ {t})

\* the notification branch taken for ALERT_WARNING as well
alertBranch_onWarning(ctx, level, type, clear, smsOk, smsDelay) ==
    IF level # ALERT_OK
    THEN LET now == millis(ctx.clk)
             can == canSendAlert(ctx.cool, type, now)
             after == ctx.clk + smsDelay
         IN IF can.ok
            THEN [ctx EXCEPT
                    !.cool = IF smsOk
                             THEN recordAlertSent(can.cool, type, millis(after))
                             ELSE can.cool,
                    !.clk = after,
                    !.gate = @ \cup {[type |-> type, now |-> now,
                                      last |-> ctx.cool.lastAlertTime[type]]},
                    !.attempted = @ \cup {type},
                    !.notified = IF smsOk THEN @ \cup {type} ELSE @,
                    !.sent[type] = IF smsOk THEN ctx.clk ELSE @]
            ELSE [ctx EXCEPT
                    !.cool = can.cool,
                    !.gate = @ \cup {[type |-> type, now |-> now,
                                      last |-> ctx.cool.lastAlertTime[type]]}]
    ELSE [ctx EXCEPT !.cool = resetAll(ctx.cool, clear)]

alertBranch(ctx, level, type, clear, smsOk, smsDelay) ==
    IF level = ALERT_CRITICAL
    THEN LET now == millis(ctx.clk)
             can == canSendAlert(ctx.cool, type, now)
             after == ctx.clk + smsDelay
         IN IF can.ok
            THEN [ctx EXCEPT
                    !.cool = IF smsOk
                             THEN recordAlertSent(can.cool, type, millis(after))
                             ELSE can.cool,
                    !.clk = after,
                    !.gate = @ \cup {[type |-> type, now |-> now,
                                      last |-> ctx.cool.lastAlertTime[type]]},
                    !.attempted = @ \cup {type},
                    !.notified = IF smsOk THEN @ \cup {type} ELSE @,
                    !.sent[type] = IF smsOk THEN ctx.clk ELSE @]
            ELSE [ctx EXCEPT
                    !.cool = can.cool,
                    !.gate = @ \cup {[type |-> type, now |-> now,
                                      last |-> ctx.cool.lastAlertTime[type]]}]
    ELSE IF level = ALERT_OK
    THEN [ctx EXCEPT !.cool = resetAll(ctx.cool, clear)]
    ELSE ctx

\* checkAllAlerts(data): the five checks in the order of the source
checkAllAlerts(cool, data, clk, smsOk, smsDelay) ==
    LET ctx0 == [cool |-> cool, clk |-> clk, gate |-> {},
                 attempted |-> {}, notified |-> {},
                 sent |-> [t \in AlertType |-> Never]]
        v == checkVoltage(data.voltage.value)
        vType == IF v.isHigh THEN ALERT_VOLTAGE_HIGH ELSE ALERT_VOLTAGE_LOW
        ctx1 == alertBranch(ctx0, v.level, vType,
                            {ALERT_VOLTAGE_HIGH, ALERT_VOLTAGE_LOW}, smsOk, smsDelay)
        tempAlert == checkCompressorTemp(data.tempCompressor.value)
        ctx2 == alertBranch(ctx1, tempAlert, ALERT_COMPRESSOR_TEMP,
                            {ALERT_COMPRESSOR_TEMP}, smsOk, smsDelay)
        highPressureAlert == checkPressureHigh(data.pressureHigh.value)
        ctx3 == alertBranch(ctx2, highPressureAlert, ALERT_PRESSURE_HIGH,
                            {ALERT_PRESSURE_HIGH}, smsOk, smsDelay)
        lowPressureAlert == checkPressureLow(data.pressureLow.value)
        ctx4 == alertBranch(ctx3, lowPressureAlert, ALERT_PRESSURE_LOW,
                            {ALERT_PRESSURE_LOW}, smsOk, smsDelay)
        currentAlert == checkCurrent(data.current.value)
        ctx5 == alertBranch(ctx4, currentAlert, ALERT_OVERCURRENT,
                            {ALERT_OVERCURRENT}, smsOk, smsDelay)
    IN [ctx |-> ctx5,
        data |-> [data EXCEPT !.voltage.alertLevel = v.level,
                              !.tempCompressor.alertLevel = tempAlert,
                              !.pressureHigh.alertLevel = highPressureAlert,
                              !.pressureLow.alertLevel = lowPressureAlert,
                              !.current.alertLevel = currentAlert]]

\* ------------------------------------------------------------------------
\* Publisher (mqtt.cpp)
\* ------------------------------------------------------------------------
\* publishSensorData: the result of mqtt.publish for the attempt-th publish
\* of this cycle, as the transport decides it
publishSensorData(data, ok, attempt) == ok[attempt]

\* the drain that commits a failed item as well and goes on
RECURSIVE drain_dropOnFailure(_, _)
drain_dropOnFailure(d, ok) ==
    IF ~bufferHasData(d.buf) THEN d
    ELSE LET data == getNextBufferedData(d.buf)
             attempt == Len(d.attempts) + 1
         IN IF data = NoItem THEN d
            ELSE IF publishSensorData(data, ok, attempt)
            THEN drain_dropOnFailure(
                     [d EXCEPT !.buf = markDataPublished(d.buf),
                               !.attempts = Append(@, data),
                               !.published = Append(@, data)], ok)
            ELSE drain_dropOnFailure(
                     [d EXCEPT !.buf = markDataPublished(d.buf),
                               !.attempts = Append(@, data),
                               !.failed = @ + 1], ok)

\* the drain written pop-then-publish: the item is gone before its publish
RECURSIVE drain_popFirst(_, _)
drain_popFirst(d, ok) ==
    IF ~bufferHasData(d.buf) THEN d
    ELSE LET data == getNextBufferedData(d.buf)
             attempt == Len(d.attempts) + 1
             popped == markDataPublished(d.buf)
         IN IF data = NoItem THEN d
            ELSE IF publishSensorData(data, ok, attempt)
            THEN drain_popFirst([d EXCEPT !.buf = popped,
                                          !.attempts = Append(@, data),
                                          !.published = Append(@, data)], ok)
            ELSE [d EXCEPT !.buf = popped,
                           !.attempts = Append(@, data),
                           !.failed = @ + 1]

\* the drain loop of publishBufferedData; d holds the buffer and the log of
\* the cycle: attempts (items handed to publishSensorData, in order),
\* published (items whose publish returned true) and failed
RECURSIVE drain(_, _)
drain(d, ok) ==
    IF ~bufferHasData(d.buf) THEN d
    ELSE LET data == getNextBufferedData(d.buf)
             attempt == Len(d.attempts) + 1
         IN IF data = NoItem THEN d
            ELSE IF publishSensorData(data, ok, attempt)
            THEN drain([d EXCEPT !.buf = markDataPublished(d.buf),
                                 !.attempts = Append(@, data),
                                 !.published = Append(@, data)], ok)
            ELSE [d EXCEPT !.attempts = Append(@, data),
                           !.failed = @ + 1]

\* publishBufferedData: nothing is attempted without a connected session
publishBufferedData(b, connected, ok) ==
    LET d0 == [buf |-> b, attempts |-> << >>, published |-> << >>, failed |-> 0]
    IN IF ~connected THEN d0
       ELSE IF bufferCount(b) = 0 THEN d0
       ELSE drain(d0, ok)

\* ------------------------------------------------------------------------
\* Transport manager (firmware.ino) and publish session (mqtt.cpp)
\* ------------------------------------------------------------------------
CONN_NONE == "CONN_NONE"
CONN_WIFI == "CONN_WIFI"
CONN_GPRS == "CONN_GPRS"
ConnectionType == {CONN_NONE, CONN_WIFI, CONN_GPRS}

\* the two Client objects the PubSubClient can be bound to
gsmClient == "gsmClient"
wifiClient == "wifiClient"
NoSession == "none"

\* WiFi.status(): connected ("up"), station started but not connected
\* ("down"; the station may reconnect by itself) or radio switched off by
\* WiFi.disconnect(true) after a failed connectWiFi ("off")
WiFiStatus == {"up", "down", "off"}

\* A transport state t is a record of
\*   activeConnection, mqttClient        the globals of firmware.ino
\*   session     the client the live publish session runs over, or NoSession
\*   wifi, gprsUp                        the state of the two links
\*   lastWiFiAttempt, lastGPRSAttempt    the retry timers
\*   trace       the calls made since the start of setup() or of the current
\*               loop() iteration: watchdog feeds, network bring-up,
\*               disconnectMQTT, mqtt.disconnect and setClient
isWiFiConnected(t) == t.wifi = "up"

isGPRSConnected(t) == t.gprsUp

\* mqtt.connected(): a session is live over the client currently bound
mqttConnected(t) == t.session # NoSession /\ t.session = t.mqttClient

\* the link under a client
LinkUp(t, client) ==
    IF client = wifiClient THEN isWiFiConnected(t) ELSE isGPRSConnected(t)

\* unsigned currentMillis - last
Elapsed(now, last) == (now - last + ClockMod) % ClockMod

esp_task_wdt_reset(t) == [t EXCEPT !.trace = Append(@, "feed")]

\* connectWiFi: WiFi.begin and wait; on failure WiFi.disconnect(true)
connectWiFi(t, ok) ==
    [t EXCEPT !.wifi = IF ok THEN "up" ELSE "off",
              !.trace = Append(@, "connectWiFi")]

\* connectGPRS: true when already connected, else the result of gprsConnect
connectGPRS(t, ok) ==
    [t EXCEPT !.gprsUp = @ \/ ok,
              !.trace = Append(@, "connectGPRS")]

\* disconnectMQTT: mqtt.disconnect() when mqtt.connected()
disconnectMQTT(t) ==
    IF mqttConnected(t)
    THEN [t EXCEPT !.session = NoSession,
                   !.trace = @ \o <<"disconnectMQTT", "mqtt.disconnect">>]
    ELSE [t EXCEPT !.trace = Append(@, "disconnectMQTT")]

setClient(t, client) ==
    [t EXCEPT !.mqttClient = client, !.trace = Append(@, "setClient")]

\* a switch that rebinds the client under a session still open
switchTo_noTeardown(t, conn) ==
    [setClient(t, IF conn = CONN_WIFI THEN wifiClient ELSE gsmClient)
        EXCEPT !.activeConnection = conn]

\* disconnectMQTT(); mqtt.setClient(...); activeConnection = ...
switchTo(t, conn) ==
    [setClient(disconnectMQTT(t),
               IF conn = CONN_WIFI THEN wifiClient ELSE gsmClient)
        EXCEPT !.activeConnection = conn]

\* a retry made on every call, whatever the time of the last attempt
retryDue_always(now, last, interval) == TRUE

\* currentMillis - lastAttempt >= RETRY_INTERVAL
retryDue(now, last, interval) == Elapsed(now, last) >= interval

\* the WiFi half of ensureMQTTTransport; done tells that the function returned
wifiPath(t, now, wifiOk) ==
    IF isWiFiConnected(t)
    THEN [t |-> IF t.activeConnection # CONN_WIFI THEN switchTo(t, CONN_WIFI) ELSE t,
          done |-> TRUE]
    ELSE IF retryDue(now, t.lastWiFiAttempt, WIFI_RETRY_INTERVAL)
    THEN LET t1 == connectWiFi([t EXCEPT !.lastWiFiAttempt = now], wifiOk)
         IN IF isWiFiConnected(t1)
            THEN [t |-> switchTo(t1, CONN_WIFI), done |-> TRUE]
            ELSE [t |-> t1, done |-> FALSE]
    ELSE [t |-> t, done |-> FALSE]

\* the GPRS half of ensureMQTTTransport
gprsPath(t, now, gprsOk) ==
    IF isGPRSConnected(t)
    THEN [t |-> IF t.activeConnection # CONN_GPRS THEN switchTo(t, CONN_GPRS) ELSE t,
          done |-> TRUE]
    ELSE IF retryDue(now, t.lastGPRSAttempt, GPRS_RETRY_INTERVAL)
    THEN LET t1 == connectGPRS([t EXCEPT !.lastGPRSAttempt = now], gprsOk)
         IN IF isGPRSConnected(t1)
            THEN [t |-> switchTo(t1, CONN_GPRS), done |-> TRUE]
            ELSE [t |-> t1, done |-> FALSE]
    ELSE [t |-> t, done |-> FALSE]

\* the transport manager trying GPRS before WiFi
ensureMQTTTransport_gprsFirst(t, now, wifiOk, gprsOk) ==
    LET g == gprsPath(t, now, gprsOk)
    IN IF g.done THEN g.t
       ELSE LET w == wifiPath(g.t, now, wifiOk)
            IN IF w.done THEN w.t
               ELSE [w.t EXCEPT !.activeConnection = CONN_NONE]

\* the transport manager leaving the old path active when both are down
ensureMQTTTransport_staysBound(t, now, wifiOk, gprsOk) ==
    LET w == wifiPath(t, now, wifiOk)
    IN IF w.done THEN w.t
       ELSE gprsPath(w.t, now, gprsOk).t

\* ensureMQTTTransport(currentMillis): WiFi preferred, GPRS fallback
ensureMQTTTransport(t, now, wifiOk, gprsOk) ==
    LET w == wifiPath(t, now, wifiOk)
    IN IF w.done THEN w.t
       ELSE LET g == gprsPath(w.t, now, gprsOk)
            IN IF g.done THEN g.t
               ELSE [g.t EXCEPT !.activeConnection = CONN_NONE]

\* the calls connectMQTT makes on the client for a new session
MQTT_CONNECT == "mqtt.connect(id, user, pass, /status/online, 1, retain, false)"
PUBLISH_ONLINE == "mqtt.publish(/status/online, true, retain)"
SUBSCRIBE == "mqtt.subscribe(/commands)"

\* the command topic subscribed before the online status is published
mqttConnect_subscribeFirst(t, brokerOk) ==
    LET t1 == [t EXCEPT !.trace = Append(@, MQTT_CONNECT)]
    IN IF brokerOk /\ LinkUp(t, t.mqttClient)
       THEN [t |-> [t1 EXCEPT !.session = t.mqttClient,
                              !.trace = @ \o <<SUBSCRIBE, PUBLISH_ONLINE>>],
             ok |-> TRUE]
       ELSE [t |-> t1, ok |-> FALSE]

\* connectMQTT from mqtt.connect on: the session with its last will, then
\* publishStatus(true), then the subscription
mqttConnect(t, brokerOk) ==
    LET t1 == [t EXCEPT !.trace = Append(@, MQTT_CONNECT)]
    IN IF brokerOk /\ LinkUp(t, t.mqttClient)
       THEN [t |-> [t1 EXCEPT !.session = t.mqttClient,
                              !.trace = @ \o <<PUBLISH_ONLINE, SUBSCRIBE>>],
             ok |-> TRUE]
       ELSE [t |-> t1, ok |-> FALSE]

\* connectMQTT as the caller of the transport manager would expect it:
\* no check of the GPRS link
connectMQTT_anyLink(t, brokerOk) ==
    IF mqttConnected(t) THEN [t |-> t, ok |-> TRUE]
    ELSE mqttConnect(t, brokerOk)

\* connectMQTT: refuses without GPRS, keeps a live session, else
\* mqtt.connect; brokerOk tells whether the collector accepts the session
connectMQTT(t, brokerOk) ==
    IF ~isGPRSConnected(t) THEN [t |-> t, ok |-> FALSE]
    ELSE IF mqttConnected(t) THEN [t |-> t, ok |-> TRUE]
    ELSE mqttConnect(t, brokerOk)

\* what mqttCallback prints
RECEIVED == "[MQTT] Message received on topic"
COMMAND == "[MQTT] Command"

\* the payloads of a message: JSON with a "command" key, anything else
Payloads == {"{\"command\":\"reset\"}", "{\"x\":1}", "reset"}
HasCommandKey(payload) == payload = "{\"command\":\"reset\"}"

\* a callback that restarts the device on a command
mqttCallback_acts(dev, payload) ==
    IF HasCommandKey(payload)
    THEN [dev EXCEPT !.dataBuffer = initBuffer,
                     !.transport.trace = @ \o <<RECEIVED, COMMAND>>]
    ELSE [dev EXCEPT !.transport.trace = Append(@, RECEIVED)]

\* mqttCallback: prints the topic and the payload, and the command when
\* the payload is JSON with a "command" key; nothing else
mqttCallback(dev, payload) ==
    IF HasCommandKey(payload)
    THEN [dev EXCEPT !.transport.trace = @ \o <<RECEIVED, COMMAND>>]
    ELSE [dev EXCEPT !.transport.trace = Append(@, RECEIVED)]

\* loop() task 4 forgetting the session of a dropped path
maintain_noDisconnect(t) ==
    IF t.activeConnection = CONN_WIFI /\ ~isWiFiConnected(t)
    THEN [t EXCEPT !.activeConnection = CONN_NONE]
    ELSE IF t.activeConnection = CONN_GPRS /\ ~isGPRSConnected(t)
    THEN [t EXCEPT !.activeConnection = CONN_NONE]
    ELSE t

\* loop() task 4: a dropped active path ends the session
maintain(t) ==
    IF t.activeConnection = CONN_WIFI /\ ~isWiFiConnected(t)
    THEN [disconnectMQTT(t) EXCEPT !.activeConnection = CONN_NONE]
    ELSE IF t.activeConnection = CONN_GPRS /\ ~isGPRSConnected(t)
    THEN [disconnectMQTT(t) EXCEPT !.activeConnection = CONN_NONE]
    ELSE t

\* setup(): GSM bring-up, then WiFi bring-up with one more try after the
\* provisioning portal; the record holds what setup() leaves behind
setup(gsmOk, wifiOk1, wifiOk2) ==
    LET t0 == [activeConnection |-> CONN_NONE, mqttClient |-> gsmClient,
               session |-> NoSession, wifi |-> "off", gprsUp |-> FALSE,
               lastWiFiAttempt |-> 0, lastGPRSAttempt |-> 0, trace |-> << >>]
        t1 == [esp_task_wdt_reset(t0) EXCEPT !.trace = Append(@, "initGSM")]
        t2 == esp_task_wdt_reset(t1)
        t3 == connectWiFi(esp_task_wdt_reset(t2), wifiOk1)
        bindWiFi(t) == [setClient(t, wifiClient) EXCEPT !.activeConnection = CONN_WIFI]
        t4 == IF isWiFiConnected(t3) THEN bindWiFi(t3)
              ELSE LET t5 == connectWiFi(esp_task_wdt_reset(t3), wifiOk2)
                   IN IF isWiFiConnected(t5) THEN bindWiFi(t5) ELSE t5
    IN [networkReady |-> gsmOk, t |-> esp_task_wdt_reset(t4)]

\* ------------------------------------------------------------------------
\* RMS sampling (sensors.cpp, sensors.h)
\* ------------------------------------------------------------------------
VOLTAGE_SAMPLES == 500
CURRENT_SAMPLES == 500
ADC_MAX_VALUE == 4095
ADC_CENTER_VALUE == 2048
\* in hundredths of a volt: 1.65f and 3.3f
ACS712_ZERO_POINT == 165
ADC_REFERENCE_VOLTAGE == 330
\* the largest value of long sumSquares (sensors.h) on the 32-bit target;
\* the int64_t of sensors.cpp is wider
LONG_MAX == 2147483647

\* no RMS function running
NoRms == [fn |-> "none", i |-> 0, sumSquares |-> 0, overflowed |-> FALSE]

\* the loop bound of the function
SampleCount(fn) ==
    IF fn = "readVoltageRMS" THEN VOLTAGE_SAMPLES ELSE CURRENT_SAMPLES

\* (int)(ACS712_ZERO_POINT * ADC_MAX_VALUE / ADC_REFERENCE_VOLTAGE)
zeroPoint == (ACS712_ZERO_POINT * ADC_MAX_VALUE) \div ADC_REFERENCE_VOLTAGE

\* the raw sample squared as read
centred_not(fn, sample) == sample

\* sample -= ADC_CENTER_VALUE in readVoltageRMS, sample -= zeroPoint in
\* readCurrentRMS
centred(fn, sample) ==
    IF fn = "readVoltageRMS" THEN sample - ADC_CENTER_VALUE
    ELSE sample - zeroPoint

\* sumSquares += (long)sample * sample.  An addition that leaves the range
\* of long is undefined; the target wraps, and overflowed records it
accumulate(r, sample) ==
    LET c == centred(r.fn, sample)
        sq == c * c
    IN IF r.sumSquares > LONG_MAX - sq
       THEN [r EXCEPT !.i = @ + 1,
                      !.sumSquares = (r.sumSquares - LONG_MAX - 1)
                                     + (sq - LONG_MAX - 1),
                      !.overflowed = TRUE]
       ELSE [r EXCEPT !.i = @ + 1, !.sumSquares = @ + sq]

\* ------------------------------------------------------------------------
\* Timers of loop() (firmware.ino)
\* ------------------------------------------------------------------------
TimerName == {"blink", "sensor", "sms", "publish"}

Interval(n) ==
    CASE n = "blink" -> BLINK_INTERVAL
      [] n = "sensor" -> SENSOR_READ_INTERVAL
      [] n = "sms" -> SMS_CHECK_INTERVAL
      [] n = "publish" -> MQTT_PUBLISH_INTERVAL

\* the timer test done in signed arithmetic
timerDue_signed(now, last, interval) == now - last >= interval

\* currentMillis - last >= INTERVAL on unsigned long
timerDue(now, last, interval) == Elapsed(now, last) >= interval

\* the timers as loop() finds them at boot: every static is 0
initTimers ==
    [lastBlink |-> 0, lastSensorRead |-> 0, lastSMSCheck |-> 0,
     firedAt |-> [n \in TimerName |-> 0], fired |-> {}, at |-> 0]

\* ------------------------------------------------------------------------
\* SMS commands (gsm.cpp, firmware.ino)
\* ------------------------------------------------------------------------
\* a text is a sequence of characters
UpperCase == <<"A", "B", "C", "D", "E", "F", "G", "H", "I", "J", "K", "L", "M",
               "N", "O", "P", "Q", "R", "S", "T", "U", "V", "W", "X", "Y", "Z">>
LowerCase == <<"a", "b", "c", "d", "e", "f", "g", "h", "i", "j", "k", "l", "m",
               "n", "o", "p", "q", "r", "s", "t", "u", "v", "w", "x", "y", "z">>

toupper(c) ==
    IF \E k \in 1 .. Len(LowerCase) : LowerCase[k] = c
    THEN UpperCase[CHOOSE k \in 1 .. Len(LowerCase) : LowerCase[k] = c]
    ELSE c

tolower(c) ==
    IF \E k \in 1 .. Len(UpperCase) : UpperCase[k] = c
    THEN LowerCase[CHOOSE k \in 1 .. Len(UpperCase) : UpperCase[k] = c]
    ELSE c

\* String::toUpperCase
toUpperCase(str) == [i \in 1 .. Len(str) |-> toupper(str[i])]

isspace(c) == c \in {" ", "\n", "\r", "\t"}

RECURSIVE trimLeft(_)
trimLeft(str) ==
    IF str # << >> /\ isspace(Head(str)) THEN trimLeft(Tail(str)) ELSE str

RECURSIVE trimRight(_)
trimRight(str) ==
    IF str # << >> /\ isspace(str[Len(str)])
    THEN trimRight(SubSeq(str, 1, Len(str) - 1))
    ELSE str

\* String::trim: blanks removed at both ends
trim(str) == trimRight(trimLeft(str))

SMS_CMD_NONE == "SMS_CMD_NONE"
SMS_CMD_STATUS == "SMS_CMD_STATUS"
SMS_CMD_RESET == "SMS_CMD_RESET"
SMS_CMD_UNKNOWN == "SMS_CMD_UNKNOWN"

STATUS == <<"S", "T", "A", "T", "U", "S">>
STAT == <<"S", "T", "A", "T">>
RESET == <<"R", "E", "S", "E", "T">>
REBOOT == <<"R", "E", "B", "O", "O", "T">>
RESTART == <<"R", "E", "S", "T", "A", "R", "T">>

\* parseSMSCommand comparing the text as received
parseSMSCommand_caseSensitive(message) ==
    LET cmd == trim(message)
    IN IF cmd = STATUS \/ cmd = STAT THEN SMS_CMD_STATUS
       ELSE IF cmd = RESET \/ cmd = REBOOT \/ cmd = RESTART THEN SMS_CMD_RESET
       ELSE SMS_CMD_UNKNOWN

parseSMSCommand(message) ==
    LET cmd == toUpperCase(trim(message))
    IN IF cmd = STATUS \/ cmd = STAT THEN SMS_CMD_STATUS
       ELSE IF cmd = RESET \/ cmd = REBOOT \/ cmd = RESTART THEN SMS_CMD_RESET
       ELSE SMS_CMD_UNKNOWN

\* no message read from the modem yet
NoSms == [content |-> << >>, cmd |-> SMS_CMD_NONE, replies |-> << >>,
          before |-> [count |-> 0, overflow |-> FALSE, active |-> {},
                      conn |-> CONN_NONE]]

\* the addressee of a reply: the sender of the command or ADMIN_PHONE
Sender == "msg.sender"
ADMIN_PHONE == "ADMIN_PHONE"

\* what the provisioning store holds: nothing, or a saved configuration
Unconfigured == "unconfigured"
Saved == "saved"

\* RuntimeConfig as constructed: the compile-time defaults
Defaults == "defaults"

\* loadConfig: the stored values when there are any
loadConfig(cfg, stored) == IF stored = Unconfigured THEN cfg ELSE stored

\* the transport variables before setup(): the initialisers of the globals
powerOnTransport ==
    [activeConnection |-> CONN_NONE, mqttClient |-> gsmClient,
     session |-> NoSession, wifi |-> "off", gprsUp |-> FALSE,
     lastWiFiAttempt |-> 0, lastGPRSAttempt |-> 0, trace |-> << >>]

\* the device's RAM as the C++ runtime builds it before setup() runs
powerOn ==
    [dataBuffer |-> initBuffer, alertCooldowns |-> initAlerts,
     currentData |-> SystemData, networkReady |-> FALSE,
     transport |-> powerOnTransport, lastMQTTPublish |-> 0,
     timers |-> initTimers, runtimeCfg |-> Defaults,
     startupComplete |-> FALSE]

\* sendSMS: the message goes out or not; the handlers do not look at the
\* result
sendSMS(replies, phone, message) == Append(replies, [to |-> phone, msg |-> message])

\* handleStatusCommand keeping the snapshot it has read as currentData
handleStatusCommand_storesSnapshot(dev, replies, data) ==
    [dev |-> [dev EXCEPT !.currentData = data],
     replies |->
        sendSMS(replies, Sender,
                [kind |-> "status", data |-> data,
                 count |-> dev.dataBuffer.count,
                 overflow |-> dev.dataBuffer.overflow,
                 active |-> {t \in AlertType : dev.alertCooldowns.alertActive[t]}])]

\* handleStatusCommand: data is what readAllSensors() returns to it; the
\* reply is formatStatusMessage, getBufferStatus and getAlertSummary
handleStatusCommand(dev, replies, data) ==
    [dev |-> dev,
     replies |->
        sendSMS(replies, Sender,
                [kind |-> "status", data |-> data,
                 count |-> dev.dataBuffer.count,
                 overflow |-> dev.dataBuffer.overflow,
                 active |-> {t \in AlertType : dev.alertCooldowns.alertActive[t]}])]

\* handleResetCommand restarting without the confirmation
handleResetCommand_silent(dev, replies) ==
    [dev |-> powerOn, replies |-> replies]

\* handleResetCommand leaving the ring in memory kept over the restart
handleResetCommand_keepsBuffer(dev, replies) ==
    [dev |-> [powerOn EXCEPT !.dataBuffer = dev.dataBuffer],
     replies |-> sendSMS(replies, ADMIN_PHONE, [kind |-> "restarting"])]

\* handleResetCommand: sendSMS, delay, ESP.restart()
handleResetCommand(dev, replies) ==
    [dev |-> powerOn,
     replies |-> sendSMS(replies, ADMIN_PHONE, [kind |-> "restarting"])]

\* handleSMSCommand: the switch over the parsed command
handleSMSCommand(dev, content, data) ==
    LET cmd == parseSMSCommand(content)
        out == CASE cmd = SMS_CMD_STATUS -> handleStatusCommand(dev, << >>, data)
                 [] cmd = SMS_CMD_RESET -> handleResetCommand(dev, << >>)
                 [] OTHER ->
                      [dev |-> dev,
                       replies |-> sendSMS(<< >>, Sender, [kind |-> "help"])]
    IN [dev |-> out.dev,
        sms |-> [content |-> content, cmd |-> cmd, replies |-> out.replies,
                 before |->
                    [count |-> dev.dataBuffer.count,
                     overflow |-> dev.dataBuffer.overflow,
                     active |-> {t \in AlertType :
                                    dev.alertCooldowns.alertActive[t]},
                     conn |-> dev.transport.activeConnection]]]

\* ------------------------------------------------------------------------
\* State
\* ------------------------------------------------------------------------
VARIABLES
    stored,           \* the SystemData held in each slot of the ring
    sms,              \* the SMSMessage in hand, its command, the replies sent
    startupComplete,  \* set at the end of setup() (firmware.ino)
    runtimeCfg,       \* the configuration in use (firmware.ino)
    nvs,              \* the provisioning store, kept over a restart
    timers,           \* lastBlink, lastSensorRead, lastSMSCheck and history
    dataBuffer,       \* the ring of buffer.cpp
    alertCooldowns,   \* the cooldown table of alerts.cpp
    currentData,      \* the latest snapshot (firmware.ino)
    networkReady,     \* set by setup() when the modem registered
    clock,            \* time since boot; millis() is millis(clock)
    acquired,         \* number of snapshots taken so far
    delivered,        \* history: items whose publish returned true, in order
    dropped,          \* history: items overwritten by an overflowing insert
    run,              \* history: inserts since the last commit or init
    lastDrain,        \* history: log of the latest publish cycle
    lastCheck,        \* history: log of the latest checkAllAlerts call
    sentAt,           \* history: clock of the latest notification per type
    transport,        \* activeConnection, the mqtt client and session, the links
    lastMQTTPublish,  \* timer of the publish cycle (firmware.ino)
    lastCycle,        \* history: log of the latest loop() iteration
    attempts,         \* history: clock of the two latest bring-ups per path
    rms,              \* the locals of readVoltageRMS / readCurrentRMS running
    draining,         \* the locals of publishBufferedData running
    api               \* history: log of the calls made to the buffer

vars == <<dataBuffer, alertCooldowns, currentData, networkReady, clock,
          acquired, delivered, dropped, run, lastDrain, lastCheck, sentAt,
          transport, lastMQTTPublish, lastCycle, api, timers, sms,
          startupComplete, runtimeCfg, nvs, stored, attempts, rms, draining>>

\* the state owned by the parts that the pipeline does not touch
sideVars == <<timers, sms, startupComplete, runtimeCfg, nvs, attempts, rms, draining>>

\* readings[] as constructed: a default SystemData in every slot
NoSnapshots == [i \in Slots |-> SystemData]

\* bufferData writing the snapshot over the oldest item
storeSnapshot_atTail(held, b, data) == [held EXCEPT ![b.tail] = data]

\* bufferData: dataBuffer.readings[dataBuffer.head] = data, a copy
storeSnapshot(held, b, data) == [held EXCEPT ![b.head] = data]

\* the provisioning state
bootVars == <<startupComplete, runtimeCfg, nvs>>

\* the part of the state the transport manager owns
transportVars == <<transport, lastMQTTPublish, lastCycle>>

\* publishBufferedData not running: pc is the statement it is at, the rest
\* are its locals and the value it returned last
NoDraining == [pc |-> "idle", connected |-> FALSE, count |-> 0, data |-> NoItem,
               published |-> 0, failed |-> 0, result |-> FALSE]

NoDrain == [ran |-> FALSE, pre |-> << >>, attempts |-> << >>,
            published |-> << >>, failed |-> 0]

NoCheck == [ran |-> FALSE, gate |-> {},
            attempted |-> {}, notified |-> {}]

\* no loop() iteration yet: trace is the trace of setup()
NoCycle(s) == [due |-> FALSE, ensured |-> s.t,
               accepted |-> FALSE, connected |-> FALSE]

\* no call made to the buffer yet
NoApi == [op |-> "initBuffer", result |-> NoItem, start |-> << >>, taken |-> << >>]

\* Values the conversion functions can return: readVoltageRMS up to about
\* 386 V, readTemperature NaN or about -52..528 C, readPressure 0..350 PSI,
\* readCurrentRMS 0..16.5 A.  The samples move the voltage (a two-sided
\* check) and the compressor temperature (a one-sided check) through every
\* level, valid and invalid; the pressure and current readings stay below
\* their critical thresholds.
Nominal == [voltage |-> 230, tempCompressor |-> 70, pressureHigh |-> 280,
            pressureLow |-> 70, current |-> 8]

Samples ==
    {Nominal}
    \cup {[Nominal EXCEPT !.voltage = x] : x \in {205, 247, 252, 310}}
    \cup {[Nominal EXCEPT !.tempCompressor = x] : x \in {NaN, 90, 96}}
    \cup {[Nominal EXCEPT !.pressureLow = 30, !.current = 13]}


\* the state setup() leaves behind, the command channel apart
InitLoop ==
    /\ dataBuffer = initBuffer
    /\ alertCooldowns = initAlerts
    /\ currentData = readAllSensors(Nominal)
    /\ acquired = 0
    /\ delivered = << >>
    /\ dropped = {}
    /\ run = 0
    /\ lastDrain = NoDrain
    /\ lastCheck = NoCheck
    /\ sentAt = [t \in AlertType |-> Never]
    /\ lastMQTTPublish = 0
    /\ api = NoApi
    /\ timers = initTimers
    /\ stored = NoSnapshots
    /\ rms = NoRms
    /\ draining = NoDraining

\* the loop entered at time 0
InitCore == InitLoop /\ clock = 0

\* setup() has run on a provisioned device
Provisioned ==
    /\ startupComplete = TRUE
    /\ nvs = Saved
    /\ runtimeCfg = loadConfig(Defaults, nvs)

\* the state setup() leaves behind
InitState ==
    /\ InitCore
    /\ sms = NoSms
    /\ Provisioned

\* the number of calls of a bring-up function in a trace
RECURSIVE Calls(_, _)
Calls(trace, f) ==
    IF trace = << >> THEN 0
    ELSE (IF Head(trace) = f THEN 1 ELSE 0) + Calls(Tail(trace), f)

\* one more bring-up of a path at time at
Attempted(a, at) == [prev |-> a.last, last |-> at]

\* the bring-ups setup() s made: connectWiFi at first and, when that one
\* failed, once more at last after the portal; connectGPRS is not called
SetupAttempts(s, first, last) ==
    [wifi |-> IF Calls(s.t.trace, "connectWiFi") > 1
              THEN [prev |-> first, last |-> last]
              ELSE [prev |-> Never, last |-> last],
     gprs |-> [prev |-> Never, last |-> Never]]

\* the outcome s of setup() in the transport variables
AfterSetup(s) ==
    /\ networkReady = s.networkReady
    /\ transport = s.t
    /\ lastCycle = NoCycle(s)
    /\ attempts = SetupAttempts(s, clock, clock)

\* time passes between two loop() iterations
Tick ==
    /\ clock < MaxClock
    /\ clock' = clock + 1
    /\ UNCHANGED <<dataBuffer, alertCooldowns, currentData, networkReady,
                   acquired, delivered, dropped, run, lastDrain, lastCheck, sentAt>>
    /\ UNCHANGED <<transportVars, api, sideVars, stored>>

\* the evaluator called whether or not the modem registered
evaluate_ignoresReady(ready, cool, data, clk, smsOk, smsDelay) ==
    checkAllAlerts(cool, data, clk, smsOk, smsDelay)

\* what the evaluator does to a snapshot: checkAllAlerts when networkReady,
\* nothing otherwise
evaluate(ready, cool, data, clk, smsOk, smsDelay) ==
    IF ready
    THEN checkAllAlerts(cool, data, clk, smsOk, smsDelay)
    ELSE [ctx |-> [cool |-> cool, clk |-> clk, gate |-> {},
                   attempted |-> {}, notified |-> {},
                   sent |-> [t \in AlertType |-> Never]],
          data |-> data]

\* the outcomes of one evaluator call over every result and duration of the
\* sendSMS calls it makes; when it makes none there is a single outcome
evaluations(ready, cool, data, clk) ==
    LET quiet == evaluate(ready, cool, data, clk, FALSE, 0)
    IN IF quiet.ctx.attempted = {}
       THEN {quiet}
       ELSE {evaluate(ready, cool, data, clk, smsOk, smsDelay) :
                smsOk \in BOOLEAN, smsDelay \in 0 .. MaxSmsDelay}

\* loop() task 1: readAllSensors, checkAllAlerts when networkReady, bufferData
Task1(raw) ==
    /\ acquired < MaxReadings
    /\ \E data \in {readAllSensors(raw)} :
       \E res \in evaluations(networkReady, alertCooldowns, data, clock) :
          /\ currentData' = res.data
          /\ alertCooldowns' = res.ctx.cool
          /\ clock' = res.ctx.clk
          /\ lastCheck' = [ran |-> networkReady, gate |-> res.ctx.gate,
                           attempted |-> res.ctx.attempted,
                           notified |-> res.ctx.notified]
          /\ sentAt' = [t \in AlertType |->
                           IF t \in res.ctx.notified THEN res.ctx.sent[t]
                           ELSE sentAt[t]]
          /\ dataBuffer' = bufferData(dataBuffer, acquired + 1)
          /\ dropped' = IF dataBuffer.count >= BUFFER_SIZE
                        THEN dropped \cup {getNextBufferedData(dataBuffer)}
                        ELSE dropped
          /\ run' = run + 1
          /\ acquired' = acquired + 1
    /\ UNCHANGED <<networkReady, delivered, lastDrain, transportVars, api,
                   sideVars>>

\* task 1 with a stored snapshot told by its acquisition number alone
SensorTask(raw) == Task1(raw) /\ UNCHANGED stored

\* task 1 with the snapshot copied into its slot of the ring
AcquisitionCycle(raw) ==
    /\ Task1(raw)
    /\ stored' = storeSnapshot(stored, dataBuffer, currentData')

\* loop() task 3: the publish cycle.  connected tells whether a transport
\* is active and connectMQTT() succeeded; ok is what mqtt.publish returns
\* for each attempt of the cycle
PublishTask(connected, ok) ==
    /\ LET d == publishBufferedData(dataBuffer, connected, ok)
       IN /\ dataBuffer' = d.buf
          /\ delivered' = delivered \o d.published
          /\ run' = IF d.buf.count # dataBuffer.count THEN 0 ELSE run
          /\ lastDrain' = [ran |-> connected, pre |-> Contents(dataBuffer),
                           attempts |-> d.attempts, published |-> d.published,
                           failed |-> d.failed]
    /\ UNCHANGED <<alertCooldowns, currentData, networkReady, clock, acquired,
                   dropped, lastCheck, sentAt, transportVars, api, sideVars,
                   stored>>

\* publishBufferedData one statement at a time.  The frame of a statement
\* that touches the locals alone
DrainFrame ==
    UNCHANGED <<alertCooldowns, currentData, networkReady, clock, acquired,
                dropped, lastDrain, lastCheck, sentAt, lastMQTTPublish,
                lastCycle, api, timers, sms, bootVars, stored, attempts, rms>>

\* loop() runs its tasks one after the other: task 1 is entered only while
\* publishBufferedData is not running.  This one lets it in at any time
loopAtTask1_preempting(d) == TRUE

loopAtTask1(d) == d.pc \in {"idle", "done"}

\* task 1 of the loop() iteration that follows
DrainInsert ==
    /\ loopAtTask1(draining)
    /\ SensorTask(Nominal)

\* the two early returns and the declaration of the locals; connected is
\* mqtt.connected()
DrainEnter(connected) ==
    /\ draining.pc \in {"idle", "done"}
    /\ draining' =
          IF ~connected
          THEN [NoDraining EXCEPT !.pc = "done", !.result = FALSE]
          ELSE IF bufferCount(dataBuffer) = 0
          THEN [NoDraining EXCEPT !.pc = "done", !.connected = TRUE,
                                  !.result = TRUE]
          ELSE [NoDraining EXCEPT !.pc = "while", !.connected = TRUE,
                                  !.count = bufferCount(dataBuffer)]
    /\ UNCHANGED <<dataBuffer, delivered, run, transport>>
    /\ DrainFrame

\* while (bufferHasData()) { data = getNextBufferedData(); if (data ==
\* nullptr) break;
DrainWhile ==
    /\ draining.pc = "while"
    /\ draining' =
          IF bufferHasData(dataBuffer)
          THEN LET data == getNextBufferedData(dataBuffer)
               IN IF data = NoItem
                  THEN [draining EXCEPT !.pc = "after"]
                  ELSE [draining EXCEPT !.data = data, !.pc = "publish"]
          ELSE [draining EXCEPT !.pc = "after"]
    /\ UNCHANGED <<dataBuffer, delivered, run, transport>>
    /\ DrainFrame

\* the branch going on to mqtt.loop() without the commit
afterPublish_skipsCommit(d, ok) ==
    IF ok THEN [d EXCEPT !.published = @ + 1, !.pc = "loop"]
    ELSE [d EXCEPT !.failed = @ + 1, !.pc = "after"]

\* the else branch going round the loop again instead of leaving it
afterPublish_retries(d, ok) ==
    IF ok THEN [d EXCEPT !.pc = "commit"]
    ELSE [d EXCEPT !.pc = "while"]

\* the two branches of if (publishSensorData(*data)): on to the commit, or
\* failed++ and break
afterPublish(d, ok) ==
    IF ok THEN [d EXCEPT !.pc = "commit"]
    ELSE [d EXCEPT !.failed = @ + 1, !.pc = "after"]

\* publishSensorData(*data); ok is what mqtt.publish returns
DrainPublish(ok) ==
    /\ draining.pc = "publish"
    /\ delivered' = IF ok THEN Append(delivered, draining.data) ELSE delivered
    /\ draining' = afterPublish(draining, ok)
    /\ UNCHANGED <<dataBuffer, run, transport>>
    /\ DrainFrame

\* markDataPublished(); published++;
DrainCommit ==
    /\ draining.pc = "commit"
    /\ dataBuffer' = markDataPublished(dataBuffer)
    /\ run' = IF dataBuffer'.count # dataBuffer.count THEN 0 ELSE run
    /\ draining' = [draining EXCEPT !.published = @ + 1, !.pc = "loop"]
    /\ UNCHANGED <<delivered, transport>>
    /\ DrainFrame

\* mqtt.loop(); delay(100); and back to the loop test.  mqtt.loop() hands
\* a message that has arrived to mqttCallback
DrainLoop ==
    /\ draining.pc = "loop"
    /\ draining' = [draining EXCEPT !.pc = "while"]
    /\ \E received \in {<< >>} \cup {<<p>> : p \in Payloads} :
       \E dev \in {[dataBuffer |-> dataBuffer,
                    alertCooldowns |-> alertCooldowns,
                    currentData |-> currentData,
                    networkReady |-> networkReady,
                    transport |-> transport,
                    lastMQTTPublish |-> lastMQTTPublish]} :
       \E out \in {IF received = << >>
                      \/ Calls(transport.trace, RECEIVED) >= MaxMessages
                   THEN dev ELSE mqttCallback(dev, received[1])} :
          /\ dataBuffer' = out.dataBuffer
          /\ alertCooldowns' = out.alertCooldowns
          /\ currentData' = out.currentData
          /\ networkReady' = out.networkReady
          /\ transport' = out.transport
          /\ lastMQTTPublish' = out.lastMQTTPublish
    /\ UNCHANGED <<clock, acquired, delivered, dropped, run, lastDrain,
                   lastCheck, sentAt, lastCycle, api, timers, sms, bootVars,
                   stored, attempts, rms>>

\* the two prints after the loop and return (failed == 0)
DrainReturn ==
    /\ draining.pc = "after"
    /\ draining' = [draining EXCEPT !.pc = "done", !.result = (draining.failed = 0)]
    /\ UNCHANGED <<dataBuffer, delivered, run, transport>>
    /\ DrainFrame

\* one loop() iteration from the watchdog feed on, without task 1: the
\* publish cycle when its timer is due (ensureMQTTTransport, connectMQTT,
\* publishBufferedData), then task 4.  wifiOk and gprsOk are the results of
\* connectWiFi and connectGPRS where called, brokerOk tells whether the
\* collector accepts a new session, pubOk whether mqtt.publish succeeds
Cycle(wifiOk, gprsOk, brokerOk, pubOk) ==
    \E now \in {millis(clock)} :
    \E due \in {Elapsed(now, lastMQTTPublish) >= MQTT_PUBLISH_INTERVAL} :
    \E t0 \in {esp_task_wdt_reset([transport EXCEPT !.trace = << >>])} :
    \E t1 \in {IF due THEN ensureMQTTTransport(t0, now, wifiOk, gprsOk) ELSE t0} :
    \E c \in {IF due /\ t1.activeConnection # CONN_NONE
               THEN connectMQTT(t1, brokerOk)
               ELSE [t |-> t1, ok |-> FALSE]} :
    \E sent \in {pubOk /\ LinkUp(c.t, c.t.mqttClient)} :
       /\ transport' = maintain(c.t)
       /\ lastMQTTPublish' = IF due THEN now ELSE lastMQTTPublish
       /\ lastCycle' = [due |-> due, ensured |-> t1,
                        accepted |-> brokerOk, connected |-> c.ok]
       /\ IF due
          THEN \E d \in {publishBufferedData(dataBuffer, c.ok,
                                              [i \in 1 .. BUFFER_SIZE |-> sent])} :
                  /\ dataBuffer' = d.buf
                  /\ delivered' = delivered \o d.published
                  /\ run' = IF d.buf.count # dataBuffer.count THEN 0 ELSE run
                  /\ lastDrain' = [ran |-> c.ok, pre |-> Contents(dataBuffer),
                                   attempts |-> d.attempts,
                                   published |-> d.published,
                                   failed |-> d.failed]
          ELSE UNCHANGED <<dataBuffer, delivered, run, lastDrain>>
       /\ UNCHANGED <<alertCooldowns, currentData, networkReady, clock,
                      acquired, dropped, lastCheck, sentAt, api, stored>>

\* the iteration without the log of the bring-up times
Iteration(wifiOk, gprsOk, brokerOk, pubOk) ==
    Cycle(wifiOk, gprsOk, brokerOk, pubOk) /\ UNCHANGED sideVars

\* the iteration with the time of each bring-up it made logged
RetryCycle(wifiOk, gprsOk, brokerOk, pubOk) ==
    /\ Cycle(wifiOk, gprsOk, brokerOk, pubOk)
    /\ attempts' =
          [wifi |-> IF Calls(lastCycle'.ensured.trace, "connectWiFi") > 0
                    THEN Attempted(attempts.wifi, clock) ELSE attempts.wifi,
           gprs |-> IF Calls(lastCycle'.ensured.trace, "connectGPRS") > 0
                    THEN Attempted(attempts.gprs, clock) ELSE attempts.gprs]
    /\ UNCHANGED <<timers, sms, bootVars, rms, draining>>

\* the environment of the transport manager: either link drops, the WiFi
\* station reconnects by itself, the session is closed by the far end
LinkChange ==
    /\ \/ transport.wifi = "up" /\ transport' = [transport EXCEPT !.wifi = "down"]
       \/ transport.wifi = "down" /\ transport' = [transport EXCEPT !.wifi = "up"]
       \/ transport.gprsUp /\ transport' = [transport EXCEPT !.gprsUp = FALSE]
       \/ transport.session # NoSession
             /\ transport' = [transport EXCEPT !.session = NoSession]
    /\ UNCHANGED <<dataBuffer, alertCooldowns, currentData, networkReady, clock,
                   acquired, delivered, dropped, run, lastDrain, lastCheck,
                   sentAt, lastMQTTPublish, lastCycle, api, sideVars, stored>>

\* The calls of buffer.h made one at a time by a caller of the module.  api
\* logs the latest call and its result; start and taken follow the current
\* run of getNextBufferedData calls each followed at once by
\* markDataPublished: the items waiting when the run began and the items the
\* run has handed out.
FreshRun(op, b) ==
    [op |-> op, result |-> NoItem, start |-> Contents(b), taken |-> << >>]

ApiFrame ==
    UNCHANGED <<alertCooldowns, currentData, networkReady, clock, delivered,
                dropped, run, lastDrain, lastCheck, sentAt, transportVars,
                sideVars, stored>>

ApiInsert ==
    /\ acquired < MaxInserts
    /\ dataBuffer' = bufferData(dataBuffer, acquired + 1)
    /\ acquired' = acquired + 1
    /\ api' = FreshRun("bufferData", dataBuffer')
    /\ ApiFrame

ApiPeek ==
    /\ api' = [api EXCEPT !.op = "getNextBufferedData",
                          !.result = getNextBufferedData(dataBuffer)]
    /\ UNCHANGED <<dataBuffer, acquired>>
    /\ ApiFrame

ApiCommit ==
    /\ dataBuffer' = markDataPublished(dataBuffer)
    /\ api' = IF api.op = "getNextBufferedData" /\ api.result # NoItem
              THEN [api EXCEPT !.op = "markDataPublished",
                               !.taken = Append(@, api.result)]
              ELSE FreshRun("markDataPublished", dataBuffer')
    /\ UNCHANGED acquired
    /\ ApiFrame

ApiClear ==
    /\ dataBuffer' = clearBuffer(dataBuffer)
    /\ api' = FreshRun("clearBuffer", dataBuffer')
    /\ UNCHANGED acquired
    /\ ApiFrame

ApiResetOverflow ==
    /\ dataBuffer' = resetOverflowFlag(dataBuffer)
    /\ api' = FreshRun("resetOverflowFlag", dataBuffer')
    /\ UNCHANGED acquired
    /\ ApiFrame

\* ------------------------------------------------------------------------
\* Specifications
\* ------------------------------------------------------------------------
\* the alert evaluator at a site whose modem registered during setup()
InitAlerts == InitState /\ networkReady = TRUE /\ AfterSetup(setup(TRUE, FALSE, FALSE))

NextAlerts ==
    \/ /\ acquired < MaxChecks
       /\ Tick
    \/ /\ acquired < MaxChecks
       /\ \E raw \in Samples : SensorTask(raw)

SpecAlerts == InitAlerts /\ [][NextAlerts]_vars

\* buffer and publisher at a site without cellular registration: the
\* evaluator is never called, every snapshot is buffered and published
InitPipeline == InitState /\ networkReady = FALSE /\ AfterSetup(setup(FALSE, FALSE, FALSE))

NextPipeline ==
    \/ \E raw \in {Nominal} : SensorTask(raw)
    \/ \E connected \in BOOLEAN, ok \in [1 .. BUFFER_SIZE -> BOOLEAN] :
          PublishTask(connected, ok)

SpecPipeline == InitPipeline /\ [][NextPipeline]_vars

\* the buffer module under every order of its calls
InitBuffer == InitState /\ AfterSetup(setup(FALSE, FALSE, FALSE))

NextBuffer ==
    \/ ApiInsert
    \/ ApiPeek
    \/ ApiCommit
    \/ ApiClear
    \/ ApiResetOverflow

SpecBuffer == InitBuffer /\ [][NextBuffer]_vars

\* the transport manager and the publish cycle at a site whose modem
\* registered, over every outcome of the WiFi bring-up of setup()
InitTransport ==
    /\ InitState
    /\ \E wifiOk1, wifiOk2 \in BOOLEAN : AfterSetup(setup(TRUE, wifiOk1, wifiOk2))

NextTransport ==
    \/ Tick
    \/ acquired < MaxQueued /\ SensorTask(Nominal)
    \/ LinkChange
    \/ \E wifiOk, gprsOk, brokerOk, pubOk \in BOOLEAN :
          Iteration(wifiOk, gprsOk, brokerOk, pubOk)

SpecTransport == InitTransport /\ [][NextTransport]_vars

\* mqttLoop(): mqtt.loop() hands a message received on the command topic
\* to mqttCallback
MqttMessage(payload) ==
    /\ mqttConnected(transport)
    /\ Calls(transport.trace, RECEIVED) < MaxMessages
    /\ \E dev \in {mqttCallback([dataBuffer |-> dataBuffer,
                                  alertCooldowns |-> alertCooldowns,
                                  currentData |-> currentData,
                                  networkReady |-> networkReady,
                                  transport |-> transport,
                                  lastMQTTPublish |-> lastMQTTPublish],
                                 payload)} :
          /\ dataBuffer' = dev.dataBuffer
          /\ alertCooldowns' = dev.alertCooldowns
          /\ currentData' = dev.currentData
          /\ networkReady' = dev.networkReady
          /\ transport' = dev.transport
          /\ lastMQTTPublish' = dev.lastMQTTPublish
    /\ UNCHANGED <<clock, acquired, delivered, dropped, run, lastDrain,
                   lastCheck, sentAt, lastCycle, api, sideVars, stored>>

\* the publish session: its establishment by the publish cycle and the
\* messages of the command topic
InitSession ==
    /\ InitState
    /\ \E wifiOk1 \in BOOLEAN : AfterSetup(setup(TRUE, wifiOk1, FALSE))

NextSession ==
    \/ clock <= WIFI_RETRY_INTERVAL /\ Tick
    \/ acquired < 1 /\ SensorTask(Nominal)
    \/ LinkChange
    \/ \E wifiOk, gprsOk, brokerOk \in BOOLEAN :
          Iteration(wifiOk, gprsOk, brokerOk, TRUE)
    \/ \E payload \in Payloads : MqttMessage(payload)

SpecSession == InitSession /\ [][NextSession]_vars

\* readVoltageRMS / readCurrentRMS: the function is entered, takes its
\* samples one by one from analogRead, and returns
RmsEnter(fn) ==
    /\ rms.fn = "none"
    /\ rms' = [NoRms EXCEPT !.fn = fn]
    /\ UNCHANGED <<dataBuffer, alertCooldowns, currentData, networkReady, clock,
                   acquired, delivered, dropped, run, lastDrain, lastCheck,
                   sentAt, transportVars, api, timers, sms, bootVars, stored,
                   attempts, draining>>

RmsSample(raw) ==
    /\ rms.fn # "none"
    /\ rms.i < SampleCount(rms.fn)
    /\ rms' = accumulate(rms, raw)
    /\ UNCHANGED <<dataBuffer, alertCooldowns, currentData, networkReady, clock,
                   acquired, delivered, dropped, run, lastDrain, lastCheck,
                   sentAt, transportVars, api, timers, sms, bootVars, stored,
                   attempts, draining>>

RmsReturn ==
    /\ rms.fn # "none"
    /\ rms.i >= SampleCount(rms.fn)
    /\ rms' = NoRms
    /\ UNCHANGED <<dataBuffer, alertCooldowns, currentData, networkReady, clock,
                   acquired, delivered, dropped, run, lastDrain, lastCheck,
                   sentAt, transportVars, api, timers, sms, bootVars, stored,
                   attempts, draining>>

\* the samples analogRead returns: the two rails of the 12-bit converter
RailSamples == {0, ADC_MAX_VALUE}

InitRms == InitState /\ AfterSetup(setup(FALSE, FALSE, FALSE))

NextRms ==
    \/ \E fn \in {"readVoltageRMS", "readCurrentRMS"} : RmsEnter(fn)
    \/ \E raw \in RailSamples : RmsSample(raw)
    \/ RmsReturn

SpecRms == InitRms /\ [][NextRms]_vars

\* the transport manager after a setup() that took time: setup() ends at
\* time done and made its first connectWiFi at time first
InitRetry ==
    /\ InitLoop
    /\ sms = NoSms
    /\ Provisioned
    /\ \E done \in 0 .. MaxSetup, wifiOk1, wifiOk2 \in BOOLEAN :
       \E first \in 0 .. done, s \in {setup(TRUE, wifiOk1, wifiOk2)} :
          /\ clock = done
          /\ networkReady = s.networkReady
          /\ transport = s.t
          /\ lastCycle = NoCycle(s)
          /\ attempts = SetupAttempts(s, first, done)

NextRetry ==
    \/ Tick
    \/ acquired < 1 /\ SensorTask(Nominal)
    \/ LinkChange
    \/ \E wifiOk, gprsOk \in BOOLEAN : RetryCycle(wifiOk, gprsOk, FALSE, FALSE)

SpecRetry == InitRetry /\ [][NextRetry]_vars

\* the timers of loop() alone: which tasks an iteration starts.  The
\* bodies of the tasks are the actions of the other specifications
Last(n) ==
    CASE n = "blink" -> timers.lastBlink
      [] n = "sensor" -> timers.lastSensorRead
      [] n = "sms" -> timers.lastSMSCheck
      [] n = "publish" -> lastMQTTPublish

LoopTimers ==
    \E now \in {millis(clock)} :
    \E fired \in {{n \in TimerName :
                     /\ n = "sms" => networkReady
                     /\ timerDue(now, Last(n), Interval(n))}} :
       /\ timers' =
             [lastBlink |-> IF "blink" \in fired THEN now ELSE timers.lastBlink,
              lastSensorRead |->
                 IF "sensor" \in fired THEN now ELSE timers.lastSensorRead,
              lastSMSCheck |->
                 IF "sms" \in fired THEN now ELSE timers.lastSMSCheck,
              firedAt |-> [n \in TimerName |->
                              IF n \in fired THEN clock ELSE timers.firedAt[n]],
              fired |-> fired, at |-> clock]
       /\ lastMQTTPublish' = IF "publish" \in fired THEN now ELSE lastMQTTPublish
       /\ UNCHANGED <<dataBuffer, alertCooldowns, currentData, networkReady,
                      clock, acquired, delivered, dropped, run, lastDrain,
                      lastCheck, sentAt, transport, lastCycle, api, sms,
                      bootVars, stored, attempts, rms, draining>>

InitTimers ==
    /\ InitState
    /\ \E gsmOk \in BOOLEAN : AfterSetup(setup(gsmOk, FALSE, FALSE))

NextTimers ==
    \/ Tick
    \/ LoopTimers

SpecTimers == InitTimers /\ [][NextTimers]_vars

\* the command parser over the texts an SMS can carry: the words of the
\* vocabulary and others, in every mix of upper and lower case, with blanks
\* around them
Words ==
    {STATUS, STAT, RESET, REBOOT, RESTART, << >>,
     <<"S", "T", "A">>, <<"S", "T", "A", "T", "U", "S", "?">>,
     <<"R", "E", "S", "E", "T", "S">>, <<"R", "E", " ", "S", "E", "T">>,
     <<"H", "E", "L", "P">>, <<"O", "N">>}

Cased(w) ==
    {[i \in 1 .. Len(w) |-> IF low[i] THEN tolower(w[i]) ELSE w[i]] :
        low \in [1 .. Len(w) -> BOOLEAN]}

Blanks(n) == [i \in 1 .. n |-> " "]

Texts ==
    {Blanks(a) \o t \o Blanks(b) :
        a \in 0 .. MaxPad, b \in 0 .. MaxPad,
        t \in UNION {Cased(w) : w \in Words}}

ParseCommand ==
    /\ sms.cmd = SMS_CMD_NONE
    /\ sms' = [sms EXCEPT !.cmd = parseSMSCommand(sms.content)]
    /\ UNCHANGED <<dataBuffer, alertCooldowns, currentData, networkReady, clock,
                   acquired, delivered, dropped, run, lastDrain, lastCheck,
                   sentAt, transportVars, api, timers, bootVars, stored,
                    attempts, rms, draining>>

\* the histories of the model start again with every boot
FreshHistory ==
    /\ clock' = 0
    /\ acquired' = 0
    /\ delivered' = << >>
    /\ dropped' = {}
    /\ run' = 0
    /\ lastDrain' = NoDrain
    /\ lastCheck' = NoCheck
    /\ sentAt' = [t \in AlertType |-> Never]
    /\ api' = NoApi
    /\ lastCycle' = NoCycle([t |-> powerOnTransport])

\* loop() task 2 from the message read by checkIncomingSMS on: content is
\* its text, raw what the sensors return if the handler reads them
SmsTask(content, raw) ==
    /\ startupComplete
    /\ networkReady
    /\ \E out \in {handleSMSCommand(
                       [dataBuffer |-> dataBuffer,
                        alertCooldowns |-> alertCooldowns,
                        currentData |-> currentData,
                        networkReady |-> networkReady,
                        transport |-> transport,
                        lastMQTTPublish |-> lastMQTTPublish,
                        timers |-> timers, runtimeCfg |-> runtimeCfg,
                        startupComplete |-> startupComplete],
                       content, readAllSensors(raw))} :
          /\ dataBuffer' = out.dev.dataBuffer
          /\ alertCooldowns' = out.dev.alertCooldowns
          /\ currentData' = out.dev.currentData
          /\ networkReady' = out.dev.networkReady
          /\ transport' = out.dev.transport
          /\ lastMQTTPublish' = out.dev.lastMQTTPublish
          /\ timers' = out.dev.timers
          /\ runtimeCfg' = out.dev.runtimeCfg
          /\ startupComplete' = out.dev.startupComplete
          /\ sms' = out.sms
          /\ IF out.dev.startupComplete
             THEN UNCHANGED <<clock, acquired, delivered, dropped, run,
                              lastDrain, lastCheck, sentAt, api, lastCycle,
                              stored>>
             ELSE FreshHistory /\ stored' = NoSnapshots
    /\ UNCHANGED <<nvs, attempts, rms, draining>>

\* setup() after a restart: the bring-up of the modem and of WiFi, the
\* provisioning portal when nothing is stored or WiFi does not connect
\* (submitted: a configuration was entered before the portal timed out)
RunSetup(gsmOk, wifiOk1, wifiOk2, submitted) ==
    /\ ~startupComplete
    /\ \E s \in {setup(gsmOk, wifiOk1, wifiOk2)} :
          /\ networkReady' = s.networkReady
          /\ transport' = s.t
          /\ lastCycle' = NoCycle(s)
          /\ attempts' = SetupAttempts(s, clock, clock)
    /\ dataBuffer' = initBuffer
    /\ alertCooldowns' = initAlerts
    /\ currentData' = readAllSensors(Nominal)
    /\ \E portal \in {nvs = Unconfigured \/ ~wifiOk1} :
          /\ nvs' = IF portal /\ submitted THEN Saved ELSE nvs
          /\ runtimeCfg' = loadConfig(runtimeCfg, nvs')
    /\ startupComplete' = TRUE
    /\ sms' = NoSms
    /\ UNCHANGED <<clock, acquired, delivered, dropped, run, lastDrain,
                   lastCheck, sentAt, api, lastMQTTPublish, timers, stored,
                   rms, draining>>

\* the command channel next to the acquisition cycle
CommandSamples == {Nominal, [Nominal EXCEPT !.voltage = 252]}

Inbox ==
    {<<"s", "t", "a", "t", "u", "s">>, <<"R", "e", "s", "e", "t">>,
     <<"H", "E", "L", "P">>}

InitCommands ==
    /\ InitCore
    /\ sms = NoSms
    /\ startupComplete = TRUE
    /\ nvs \in {Unconfigured, Saved}
    /\ runtimeCfg = loadConfig(Defaults, nvs)
    /\ \E wifiOk1 \in BOOLEAN : AfterSetup(setup(TRUE, wifiOk1, FALSE))

\* the command handlers do not look at the clock: a boot is followed for
\* one cooldown window, which lets the evaluator raise an alert
NextCommands ==
    \/ startupComplete /\ clock < ALERT_COOLDOWN /\ Tick
    \/ /\ startupComplete
       /\ acquired < MaxCycles
       /\ \E raw \in CommandSamples : SensorTask(raw)
    \/ \E content \in Inbox, raw \in CommandSamples : SmsTask(content, raw)
    \/ \E gsmOk, wifiOk1, wifiOk2, submitted \in BOOLEAN :
          RunSetup(gsmOk, wifiOk1, wifiOk2, submitted)

SpecCommands == InitCommands /\ [][NextCommands]_vars

\* the acquisition cycle with the snapshots as they are stored, next to
\* the publisher and the Status command.  One sample has an out-of-range
\* voltage next to a valid current, the other a critical voltage next to an
\* out-of-range current
AcquireSamples ==
    {[Nominal EXCEPT !.voltage = 310],
     [Nominal EXCEPT !.voltage = 252, !.current = 30]}

InitAcquire ==
    /\ InitState
    /\ \E gsmOk \in BOOLEAN : AfterSetup(setup(gsmOk, FALSE, FALSE))

NextAcquire ==
    \/ /\ acquired < MaxCycles
       /\ \E raw \in AcquireSamples : AcquisitionCycle(raw)
    \/ \E connected \in BOOLEAN, ok \in [1 .. BUFFER_SIZE -> BOOLEAN] :
          PublishTask(connected, ok)
    \/ \E raw \in AcquireSamples : SmsTask(<<"S", "t", "a", "t">>, raw)

SpecAcquire == InitAcquire /\ [][NextAcquire]_vars

InitParse ==
    /\ InitCore
    /\ Provisioned
    /\ AfterSetup(setup(TRUE, FALSE, FALSE))
    /\ \E t \in Texts : sms = [NoSms EXCEPT !.content = t]

NextParse == ParseCommand

SpecParse == InitParse /\ [][NextParse]_vars

\* ------------------------------------------------------------------------
\* Helpers of the properties
\* ------------------------------------------------------------------------
Range(q) == {q[i] : i \in 1 .. Len(q)}

Buffered == Contents(dataBuffer)

\* the reading of a snapshot a condition type is evaluated from
ReadingOf(data, t) ==
    CASE t \in {ALERT_VOLTAGE_HIGH, ALERT_VOLTAGE_LOW} -> data.voltage
      [] t = ALERT_COMPRESSOR_TEMP -> data.tempCompressor
      [] t = ALERT_PRESSURE_HIGH -> data.pressureHigh
      [] t = ALERT_PRESSURE_LOW -> data.pressureLow
      [] t = ALERT_OVERCURRENT -> data.current

\* a step of the evaluator: SensorTask with networkReady
CheckStep == acquired' # acquired /\ lastCheck'.ran

\* a step of the publish cycle
PublishStep == lastDrain'.ran /\ lastDrain'.pre = Buffered /\ acquired' = acquired

\* ------------------------------------------------------------------------
\* Offline buffer and publisher (SpecPipeline)
\* ------------------------------------------------------------------------
\* C1: after more than BUFFER_SIZE inserts with no commit or clear in
\* between, count equals the capacity, the overflow flag is set and the
\* buffered items, oldest first, are the BUFFER_SIZE most recent
\* acquisitions in their insertion order.
C1_OverflowKeepsNewest ==
    run > BUFFER_SIZE =>
        /\ dataBuffer.count = BUFFER_SIZE
        /\ dataBuffer.overflow
        /\ Buffered = [i \in 1 .. BUFFER_SIZE |-> acquired - BUFFER_SIZE + i]

\* capacity + 1 inserts from the empty buffer: insert #2 is the oldest left
C1_Witness ==
    /\ acquired = BUFFER_SIZE + 1
    /\ run = BUFFER_SIZE + 1
    /\ dataBuffer.overflow
    /\ getNextBufferedData(dataBuffer) = 2

\* C2: the delivered snapshots are in insertion order, and every delivered
\* snapshot was inserted before every snapshot still in the buffer: nothing
\* is delivered while an earlier snapshot is still waiting.
C2_DeliveredInOrder ==
    /\ \A i, j \in 1 .. Len(delivered) : i < j => delivered[i] < delivered[j]
    /\ \A x \in Range(delivered) : \A y \in Range(Buffered) : x < y

\* deliveries interleaved with a failed cycle and an overflow
C2_Witness ==
    /\ Len(delivered) >= 2
    /\ dropped # {}
    /\ lastDrain.failed > 0
    /\ dataBuffer.count > 0

\* C3: a publish cycle stops at the first delivery failure: the items before
\* it are committed, the failing item and the items after it stay buffered
\* in their order, nothing after the failing item is attempted, and every
\* cycle starts with the oldest buffered item, so the failing item is the
\* first one tried again.
C3_DrainStopsAtFailure ==
    [][PublishStep =>
          LET k == Len(lastDrain'.published)
              pre == Buffered
          IN /\ lastDrain'.attempts # << >> =>
                    lastDrain'.attempts[1] = getNextBufferedData(dataBuffer)
             /\ lastDrain'.failed > 0 =>
                    /\ lastDrain'.failed = 1
                    /\ lastDrain'.published = SubSeq(pre, 1, k)
                    /\ lastDrain'.attempts = SubSeq(pre, 1, k + 1)
                    /\ Contents(dataBuffer') = SubSeq(pre, k + 1, Len(pre))
                    /\ delivered' = delivered \o SubSeq(pre, 1, k)]_vars

\* a cycle over three items that failed on the second one
C3_Witness ==
    /\ lastDrain.failed = 1
    /\ Len(lastDrain.pre) = 3
    /\ Len(lastDrain.published) = 1
    /\ Buffered = SubSeq(lastDrain.pre, 2, 3)

C5_NotificationsSpaced ==
    [][\A t \in AlertType :
          (sentAt'[t] # sentAt[t] /\ sentAt[t] # Never) =>
              sentAt'[t] - sentAt[t] >= ALERT_COOLDOWN]_vars

\* C6: a Critical reading whose cooldown entry is still as initAlerts left
\* it (never notified) makes checkAllAlerts attempt a notification, and a
\* successful one stamps the entry with the current time and sets active.
C6_FirstCriticalNotifies ==
    [][\A t \in AlertType :
          (/\ CheckStep
           /\ ReadingOf(currentData', t).alertLevel = ALERT_CRITICAL
           /\ t \in {g.type : g \in lastCheck'.gate}
           /\ sentAt[t] = Never
           /\ alertCooldowns.lastAlertTime[t] = 0
           /\ ~alertCooldowns.alertActive[t]) =>
              /\ t \in lastCheck'.attempted
              /\ t \in lastCheck'.notified =>
                    /\ alertCooldowns'.alertActive[t]
                    /\ alertCooldowns'.lastAlertTime[t] = millis(clock')]_vars

\* no wraparound of millis() between two clock values
SameEpoch(a, b) == a \div ClockMod = b \div ClockMod

C8_WarningIsSilent ==
    [][CheckStep =>
          /\ \A t \in lastCheck'.attempted :
                ReadingOf(currentData', t).alertLevel = ALERT_CRITICAL
          /\ (currentData'.voltage.value >= VOLTAGE_HIGH_WARNING
                /\ currentData'.voltage.value < VOLTAGE_HIGH_CRITICAL) =>
                currentData'.voltage.alertLevel = ALERT_WARNING
          /\ (currentData'.tempCompressor.value >= COMP_TEMP_WARNING
                /\ currentData'.tempCompressor.value < COMP_TEMP_CRITICAL) =>
                currentData'.tempCompressor.alertLevel = ALERT_WARNING
          /\ \A t \in AlertType :
                ReadingOf(currentData', t).alertLevel = ALERT_WARNING =>
                   /\ t \notin lastCheck'.attempted
                   /\ alertCooldowns'.lastAlertTime[t] = alertCooldowns.lastAlertTime[t]
                   /\ alertCooldowns'.alertActive[t] = alertCooldowns.alertActive[t]]_vars

\* a Warning evaluated at a time when a Critical would have passed the
\* cooldown check of an untouched entry
C8_Witness ==
    /\ lastCheck.ran
    /\ lastCheck.attempted = {}
    /\ currentData.voltage.alertLevel = ALERT_WARNING
    /\ alertCooldowns.lastAlertTime[ALERT_VOLTAGE_HIGH] = 0
    /\ millis(clock) >= ALERT_COOLDOWN

\* C9: a Reading with valid = false is kept out of the alert evaluation: no
\* notification is attempted for a condition type of that Reading.
C9_InvalidNotEvaluated ==
    \A t \in AlertType :
        ~ReadingOf(currentData, t).valid => t \notin lastCheck.attempted

\* C10: in the cooldown check, a current time below the stored timestamp is
\* treated as expired and the stored timestamp is reset to zero; otherwise
\* the check passes exactly when now - lastAlertTime >= ALERT_COOLDOWN, and
\* a check that does not pass leaves the timestamp alone.
C10_CooldownCheck ==
    \A g \in lastCheck.gate :
        IF g.now < g.last
        THEN /\ g.type \in lastCheck.attempted
             /\ g.type \notin lastCheck.notified =>
                   alertCooldowns.lastAlertTime[g.type] = 0
        ELSE /\ g.type \in lastCheck.attempted <=> g.now - g.last >= ALERT_COOLDOWN
             /\ g.type \notin lastCheck.notified =>
                   alertCooldowns.lastAlertTime[g.type] = g.last

\* the wraparound branch taken and the message not sent: the reset to zero
\* is what is left in the entry
C10_Witness ==
    \E g \in lastCheck.gate :
        /\ g.now < g.last
        /\ g.type \in lastCheck.attempted
        /\ g.type \notin lastCheck.notified
        /\ alertCooldowns.lastAlertTime[g.type] = 0

\* ------------------------------------------------------------------------
\* Transport manager (SpecTransport)
\* ------------------------------------------------------------------------
\* the client of a path
ClientOf(conn) == IF conn = CONN_WIFI THEN wifiClient ELSE gsmClient

\* C11: at most one path is active, a live publish session runs over the
\* client of the active path and over no other, and in every publish cycle
\* each setClient comes right after the disconnectMQTT that tore the old
\* session down: no session stays connected across a change of transport.
C11_NoSessionAcrossTransports ==
    /\ transport.activeConnection \in ConnectionType
    /\ transport.session # NoSession => transport.session = transport.mqttClient
    /\ transport.activeConnection # CONN_NONE =>
          transport.mqttClient = ClientOf(transport.activeConnection)
    /\ lastCycle.due =>
          \A i \in DOMAIN transport.trace :
             transport.trace[i] = "setClient" =>
                /\ i > 1
                /\ transport.trace[i - 1] \in {"disconnectMQTT", "mqtt.disconnect"}

\* a cycle that closed a live session, rebound the client to WiFi and
\* opened the next session over it
C11_Witness ==
    /\ lastCycle.due
    /\ \E i \in DOMAIN transport.trace :
          /\ transport.trace[i] = "setClient"
          /\ i > 1
          /\ transport.trace[i - 1] = "mqtt.disconnect"
    /\ transport.activeConnection = CONN_WIFI
    /\ transport.session = wifiClient

\* a step of loop() in which the publish cycle ran
CycleStep == lastMQTTPublish' # lastMQTTPublish

\* the events of a trace
Events(trace) == {trace[i] : i \in DOMAIN trace}

\* C12: whenever WiFi is connected when ensureMQTTTransport runs, the active
\* transport after the call is WiFi and the client bound is wifiClient,
\* whatever the active transport was and whatever the state of GPRS.
C12_PrimaryPreferred ==
    [][(CycleStep /\ isWiFiConnected(transport)) =>
          /\ lastCycle'.ensured.activeConnection = CONN_WIFI
          /\ lastCycle'.ensured.mqttClient = wifiClient]_vars

\* WiFi found connected while GPRS was up and bound: the call switched the
\* client without a connectWiFi of its own
C12_Witness ==
    /\ lastCycle.due
    /\ lastCycle.ensured.activeConnection = CONN_WIFI
    /\ lastCycle.ensured.gprsUp
    /\ "setClient" \in Events(lastCycle.ensured.trace)
    /\ "connectWiFi" \notin Events(lastCycle.ensured.trace)

\* the publish cycle of this step moved the active transport from GPRS to WiFi
BackToWiFi ==
    /\ CycleStep
    /\ transport.activeConnection = CONN_GPRS
    /\ lastCycle'.ensured.activeConnection = CONN_WIFI

\* with WiFi down before and after the call and GPRS connected, the call
\* leaves GPRS active
FallsBackToGPRS ==
    (/\ CycleStep
     /\ ~isWiFiConnected(transport)
     /\ isGPRSConnected(transport)
     /\ ~isWiFiConnected(lastCycle'.ensured)) =>
        /\ lastCycle'.ensured.activeConnection = CONN_GPRS
        /\ lastCycle'.ensured.mqttClient = gsmClient

\* the GPRS session is closed before the client is rebound to WiFi
TornDownBeforeSwitch ==
    BackToWiFi =>
        /\ lastCycle'.ensured.session = NoSession
        /\ mqttConnected(transport) =>
              \E i \in DOMAIN lastCycle'.ensured.trace :
                 /\ lastCycle'.ensured.trace[i] = "setClient"
                 /\ i > 1
                 /\ lastCycle'.ensured.trace[i - 1] = "mqtt.disconnect"

C14_NoTransportSkipsCycle ==
    [][/\ (/\ CycleStep
           /\ ~isWiFiConnected(lastCycle'.ensured)
           /\ ~isGPRSConnected(lastCycle'.ensured)) =>
             /\ lastCycle'.ensured.activeConnection = CONN_NONE
             /\ transport'.activeConnection = CONN_NONE
             /\ ~lastCycle'.connected
             /\ ~lastDrain'.ran
             /\ lastDrain'.attempts = << >>
             /\ dataBuffer' = dataBuffer
             /\ delivered' = delivered
       /\ (acquired' # acquired /\ transport.activeConnection = CONN_NONE) =>
             Contents(dataBuffer') =
                Append(IF dataBuffer.count < BUFFER_SIZE THEN Buffered
                       ELSE Tail(Buffered), acquired')
       /\ \A x \in 1 .. acquired' :
             \/ x \in Range(Contents(dataBuffer'))
             \/ x \in Range(delivered')
             \/ x \in dropped']_vars

\* both retries were made and failed while two snapshots were waiting: the
\* cycle ended with no transport and the buffer untouched
C14_Witness ==
    /\ lastCycle.due
    /\ lastCycle.ensured.activeConnection = CONN_NONE
    /\ {"connectWiFi", "connectGPRS"} \subseteq Events(lastCycle.ensured.trace)
    /\ ~lastDrain.ran
    /\ lastDrain.pre = <<1, 2>>
    /\ Buffered = <<1, 2>>

\* C15: in every publish cycle that has a transport active after
\* ensureMQTTTransport and whose session the collector accepts, the session
\* is connected and the buffer is drained: publishBufferedData runs and
\* hands the waiting snapshots to publishSensorData, with WiFi active and
\* GPRS down as well.
C15_ActiveTransportDrains ==
    [][(/\ CycleStep
        /\ lastCycle'.ensured.activeConnection # CONN_NONE
        /\ lastCycle'.accepted) =>
          /\ lastCycle'.connected
          /\ lastDrain'.ran
          /\ Buffered # << >> => lastDrain'.attempts # << >>]_vars

\* ------------------------------------------------------------------------
\* Buffer module (SpecBuffer)
\* ------------------------------------------------------------------------
\* the oldest item waiting: acquisition numbers grow with every insert
Oldest(b) ==
    CHOOSE x \in Range(Contents(b)) : \A y \in Range(Contents(b)) : x <= y

\* C16: getNextBufferedData changes nothing in the buffer (head, tail,
\* count, overflow, stored items); it returns the item at tail, the oldest
\* one, when count > 0 and the empty result when count = 0.
C16_PeekIsPure ==
    [][api'.op = "getNextBufferedData" =>
          /\ dataBuffer' = dataBuffer
          /\ dataBuffer.count = 0 => api'.result = NoItem
          /\ dataBuffer.count > 0 =>
                /\ api'.result = dataBuffer.readings[dataBuffer.tail]
                /\ api'.result = Oldest(dataBuffer)]_vars

\* a peek on a ring emptied after use: stale items are still stored in the
\* array and the result is empty
C16_Witness ==
    /\ api.op = "getNextBufferedData"
    /\ api.result = NoItem
    /\ dataBuffer.count = 0
    /\ dataBuffer.readings[dataBuffer.tail] # NoItem

\* C17: N repetitions of getNextBufferedData followed at once by
\* markDataPublished hand out the first N of the items that were waiting,
\* in insertion order, and count has gone down by exactly N.
C17_PeekCommitIsFifo ==
    LET n == Len(api.taken)
    IN /\ n <= Len(api.start)
       /\ api.taken = SubSeq(api.start, 1, n)
       /\ \A i, j \in 1 .. n : i < j => api.taken[i] < api.taken[j]
       /\ \A i \in 1 .. n : \A y \in Range(Buffered) : api.taken[i] < y
       /\ dataBuffer.count = Len(api.start) - n

\* a full ring that had overflowed, taken out completely
C17_Witness ==
    /\ api.op = "markDataPublished"
    /\ Len(api.taken) = BUFFER_SIZE
    /\ api.taken[1] > 1
    /\ dataBuffer.count = 0

\* C18: 0 <= count <= BUFFER_SIZE, head and tail are in 0 .. BUFFER_SIZE-1,
\* head = (tail + count) mod BUFFER_SIZE, and an index that moves goes to
\* its successor modulo BUFFER_SIZE or, in clearBuffer, to 0.
BufferShape(b) ==
    /\ b.count \in 0 .. BUFFER_SIZE
    /\ b.head \in 0 .. BUFFER_SIZE - 1
    /\ b.tail \in 0 .. BUFFER_SIZE - 1
    /\ b.head = (b.tail + b.count) % BUFFER_SIZE

C18_IndicesInRange ==
    [][/\ BufferShape(dataBuffer)
       /\ BufferShape(dataBuffer')
       /\ dataBuffer'.head # dataBuffer.head =>
             \/ dataBuffer'.head = (dataBuffer.head + 1) % BUFFER_SIZE
             \/ api'.op = "clearBuffer" /\ dataBuffer'.head = 0
       /\ dataBuffer'.tail # dataBuffer.tail =>
             \/ dataBuffer'.tail = (dataBuffer.tail + 1) % BUFFER_SIZE
             \/ api'.op = "clearBuffer" /\ dataBuffer'.tail = 0]_vars

\* both indices have gone round the ring
C18_Witness ==
    /\ dataBuffer.count = BUFFER_SIZE
    /\ dataBuffer.head = 1
    /\ dataBuffer.tail = 1
    /\ acquired > BUFFER_SIZE
    /\ api.op = "bufferData"

\* C19: overflow becomes true exactly in a bufferData made while count =
\* BUFFER_SIZE; once true it stays true through bufferData,
\* getNextBufferedData and markDataPublished and goes back to false only in
\* clearBuffer or resetOverflowFlag; every bufferData stores its item.
C19_OverflowIsSticky ==
    [][/\ api'.op = "bufferData" =>
             /\ dataBuffer'.overflow =
                   (dataBuffer.overflow \/ dataBuffer.count = BUFFER_SIZE)
             /\ Contents(dataBuffer')[dataBuffer'.count] = acquired'
       /\ api'.op \in {"getNextBufferedData", "markDataPublished"} =>
             dataBuffer'.overflow = dataBuffer.overflow
       /\ (dataBuffer'.overflow /\ ~dataBuffer.overflow) =>
             api'.op = "bufferData" /\ dataBuffer.count = BUFFER_SIZE
       /\ (~dataBuffer'.overflow /\ dataBuffer.overflow) =>
             api'.op \in {"clearBuffer", "resetOverflowFlag"}]_vars

\* the flag still set on a ring emptied commit by commit, and an insert
\* accepted after it
C19_Witness ==
    /\ dataBuffer.overflow
    /\ api.op = "bufferData"
    /\ dataBuffer.count = 1

\* ------------------------------------------------------------------------
\* Watchdog (SpecTransport)
\* ------------------------------------------------------------------------
\* the calls that block for a long time: network bring-up
LongBlocking == {"initGSM", "connectWiFi", "connectGPRS"}

RECURSIVE FeedsAndBringUps(_)
\* the watchdog feeds and bring-up calls of a trace, in order
FeedsAndBringUps(trace) ==
    IF trace = << >> THEN << >>
    ELSE IF Head(trace) \in LongBlocking \cup {"feed"}
         THEN <<Head(trace)>> \o FeedsAndBringUps(Tail(trace))
         ELSE FeedsAndBringUps(Tail(trace))

\* C20: the watchdog is fed at the start of every loop iteration (and of
\* setup), and every long-blocking call (initGSM, connectWiFi, connectGPRS),
\* in setup and in the loop's transport manager alike, has a feed before it
\* with no other long-blocking call in between.
C20_FedBeforeBlocking ==
    LET calls == FeedsAndBringUps(transport.trace)
    IN /\ calls # << >> /\ calls[1] = "feed"
       /\ \A i \in 1 .. Len(calls) :
             calls[i] \in LongBlocking => calls[i - 1] = "feed"

\* ------------------------------------------------------------------------
\* Timers (SpecTimers)
\* ------------------------------------------------------------------------
\* a step that is one pass of loop() over its timers
TimerStep == timers'.at # timers.at \/ timers'.fired # timers.fired

\* the timers an iteration may start: the SMS poll needs networkReady
Armed == {n \in TimerName : n = "sms" => networkReady}

\* C21 as stated: a timer whose stored last-fired value is numerically
\* greater than the current time fires in that iteration.
C21_GreaterLastIsExpired ==
    [][TimerStep =>
          \A n \in Armed : Last(n) > millis(clock) => n \in timers'.fired]_vars

\* C21, amended: every timer is tested on the unsigned difference
\* now - last, so that, as long as less than one full period of the clock
\* has passed since it last fired, it fires exactly when the time really
\* elapsed has reached its interval, also when the stored value is
\* numerically greater than the current time; such a timer is not expired
\* by the wraparound itself.
C21_WraparoundSafe ==
    [][TimerStep =>
          \A n \in Armed :
             /\ n \in timers'.fired <=>
                   Elapsed(millis(clock), Last(n)) >= Interval(n)
             /\ clock - timers.firedAt[n] < ClockMod =>
                   (n \in timers'.fired <=>
                       clock - timers.firedAt[n] >= Interval(n))
             /\ n \in timers'.fired =>
                   /\ Last(n)' = millis(clock)
                   /\ timers'.firedAt[n] = clock]_vars

\* the clock has wrapped: the sensor timer, last fired before the wrap,
\* has fired again after it
C21_Witness ==
    /\ clock >= ClockMod
    /\ "sensor" \in timers.fired
    /\ timers.at = clock
    /\ timers.lastSensorRead < SENSOR_READ_INTERVAL

\* ------------------------------------------------------------------------
\* Command parser (SpecParse)
\* ------------------------------------------------------------------------
\* a text matches a word when it has the same letters, case apart
SameLetters(t, w) ==
    Len(t) = Len(w) /\ \A i \in 1 .. Len(w) : toupper(t[i]) = toupper(w[i])

Parsed == sms.cmd # SMS_CMD_NONE

CommandStep == sms' # sms

RestartStep == startupComplete /\ ~startupComplete'

Confirmation == [to |-> ADMIN_PHONE, msg |-> [kind |-> "restarting"]]

\* C23: a Reset command sends the confirmation and then restarts; after
\* the restart the offline buffer is empty with overflow false, the
\* cooldown table is cleared, the active transport is None and the
\* configuration in use is back at its defaults, while the provisioning
\* store is as it was; setup() then starts from an empty buffer and a
\* cleared cooldown table and loads the stored configuration.  Nothing but
\* a Reset command restarts the device.
C23_ResetRestarts ==
    [][/\ (CommandStep /\ sms'.cmd = SMS_CMD_RESET) =>
             /\ sms'.replies = <<Confirmation>>
             /\ RestartStep
       /\ RestartStep =>
             /\ CommandStep /\ sms'.cmd = SMS_CMD_RESET
             /\ dataBuffer'.count = 0 /\ ~dataBuffer'.overflow
             /\ Contents(dataBuffer') = << >>
             /\ \A t \in AlertType :
                   /\ ~alertCooldowns'.alertActive[t]
                   /\ alertCooldowns'.lastAlertTime[t] = 0
             /\ transport'.activeConnection = CONN_NONE
             /\ ~mqttConnected(transport')
             /\ ~networkReady'
             /\ runtimeCfg' = Defaults
             /\ nvs' = nvs
       /\ (~startupComplete /\ startupComplete') =>
             /\ dataBuffer'.count = 0 /\ ~dataBuffer'.overflow
             /\ \A t \in AlertType : ~alertCooldowns'.alertActive[t]
             /\ nvs = Saved => (nvs' = Saved /\ runtimeCfg' = Saved)]_vars

\* restarted with an overflowed buffer, an active alert, WiFi bound and a
\* stored configuration
C23_Witness ==
    /\ ~startupComplete
    /\ sms.cmd = SMS_CMD_RESET
    /\ sms.before.count = BUFFER_SIZE
    /\ sms.before.overflow
    /\ sms.before.active # {}
    /\ sms.before.conn = CONN_WIFI
    /\ nvs = Saved
    /\ dataBuffer.count = 0

\* C24: handling a Status command leaves the offline buffer, the cooldown
\* table, the current snapshot and the transport state as they were; the
\* reply goes to the sender and carries a snapshot read for it, the buffer
\* occupancy and the active alerts.
C24_StatusIsSideInput ==
    [][(CommandStep /\ sms'.cmd = SMS_CMD_STATUS) =>
          /\ dataBuffer' = dataBuffer
          /\ alertCooldowns' = alertCooldowns
          /\ currentData' = currentData
          /\ transport' = transport
          /\ lastMQTTPublish' = lastMQTTPublish
          /\ Len(sms'.replies) = 1
          /\ sms'.replies[1].to = Sender
          /\ sms'.replies[1].msg.kind = "status"
          /\ sms'.replies[1].msg.data \in
                {readAllSensors(raw) : raw \in CommandSamples}
          /\ sms'.replies[1].msg.count = dataBuffer.count
          /\ sms'.replies[1].msg.overflow = dataBuffer.overflow
          /\ sms'.replies[1].msg.active =
                {t \in AlertType : alertCooldowns.alertActive[t]}]_vars

\* the reply shows a reading that differs from the current snapshot, which
\* carries the evaluator's severity; an alert is active, the buffer in use
C24_Witness ==
    /\ sms.cmd = SMS_CMD_STATUS
    /\ startupComplete
    /\ sms.replies[1].msg.data.voltage.value # currentData.voltage.value
    /\ currentData.voltage.alertLevel = ALERT_CRITICAL
    /\ dataBuffer.count > 0
    /\ sms.replies[1].msg.active # {}

\* ------------------------------------------------------------------------
\* Acquisition cycle (SpecAcquire)
\* ------------------------------------------------------------------------
\* the slots that hold a waiting item
Live(b) == {(b.tail + i) % BUFFER_SIZE : i \in 0 .. b.count - 1}

\* the severity fields are what the check functions give on the values
Annotated(data) ==
    /\ data.voltage.alertLevel = checkVoltage(data.voltage.value).level
    /\ data.tempCompressor.alertLevel =
          checkCompressorTemp(data.tempCompressor.value)
    /\ data.pressureHigh.alertLevel = checkPressureHigh(data.pressureHigh.value)
    /\ data.pressureLow.alertLevel = checkPressureLow(data.pressureLow.value)
    /\ data.current.alertLevel = checkCurrent(data.current.value)

\* C25: every snapshot in the offline buffer carries, in its five severity
\* fields, the result of the corresponding check function on its values.
C25_BufferedIsEvaluated ==
    \A k \in Live(dataBuffer) : Annotated(stored[k])

\* C28: in every snapshot produced by acquisition, power is voltage x
\* current when both readings are valid and 0 otherwise, and
\* compressorRunning is true only when the current reading is valid and
\* above the running threshold.
Derived(data) ==
    /\ data.power = IF data.voltage.valid /\ data.current.valid
                    THEN data.voltage.value * data.current.value
                    ELSE 0
    /\ data.compressorRunning =>
          data.current.valid /\ data.current.value > RUNNING_CURRENT

C28_DerivedFromValid ==
    /\ Derived(currentData)
    /\ \A k \in Live(dataBuffer) : Derived(stored[k])
    /\ \A i \in 1 .. Len(sms.replies) :
          sms.replies[i].msg.kind = "status" => Derived(sms.replies[i].msg.data)

\* an out-of-range voltage next to a valid current above the threshold, and
\* a stored snapshot with an out-of-range current
C28_Witness ==
    /\ acquired > 1
    /\ ~currentData.voltage.valid
    /\ currentData.current.valid
    /\ currentData.compressorRunning
    /\ currentData.power = 0
    /\ \E k \in Live(dataBuffer) :
          /\ ~stored[k].current.valid
          /\ ~stored[k].compressorRunning
          /\ stored[k].current.value > RUNNING_CURRENT

\* C29: a snapshot is not changed between its insert and its removal: a
\* slot that holds the same waiting item before and after a step of the
\* acquisition cycle, the publisher or the command handler holds the same
\* SystemData.
C29_StoredIsImmutable ==
    [][\A k \in Live(dataBuffer) \cap Live(dataBuffer') :
          dataBuffer'.readings[k] = dataBuffer.readings[k] =>
             stored'[k] = stored[k]]_vars

\* the oldest of a full buffer differs from the current snapshot after later
\* acquisition cycles, a publish cycle that failed and a Status command
C29_Witness ==
    /\ dataBuffer.count = BUFFER_SIZE
    /\ acquired = BUFFER_SIZE
    /\ lastDrain.ran /\ lastDrain.failed > 0
    /\ sms.cmd = SMS_CMD_STATUS
    /\ stored[dataBuffer.tail] # currentData
    /\ stored[dataBuffer.tail].voltage.alertLevel = ALERT_CRITICAL

\* the two latest bring-ups of a path are at least the interval apart
Spaced(a, interval) == a.prev # Never => a.last - a.prev >= interval

\* C26: any two consecutive bring-up attempts of the Primary path are at
\* least WIFI_RETRY_INTERVAL apart and any two consecutive bring-up attempts
\* of the Secondary path at least GPRS_RETRY_INTERVAL apart.
C26_RetriesSpaced ==
    /\ Spaced(attempts.wifi, WIFI_RETRY_INTERVAL)
    /\ Spaced(attempts.gprs, GPRS_RETRY_INTERVAL)

\* a step that ran mqttCallback
CallbackStep == Calls(transport'.trace, RECEIVED) > Calls(transport.trace, RECEIVED)

\* the calls made on the client from mqtt.connect on
RECURSIVE FromConnect(_)
FromConnect(trace) ==
    IF trace = << >> \/ Head(trace) = MQTT_CONNECT THEN trace
    ELSE FromConnect(Tail(trace))

\* C27: every step that establishes a publish session connects with the
\* retained last will "false" on the online-status topic, then publishes
\* the retained online status "true", then subscribes to the command topic;
\* a message received on the command topic is logged and changes nothing
\* else of the device.
C27_SessionSetupOrder ==
    [][/\ (transport'.session # NoSession /\ transport'.session # transport.session)
             => \E rest \in {FromConnect(transport'.trace)} :
                   /\ Len(rest) >= 3
                   /\ SubSeq(rest, 1, 3) = <<MQTT_CONNECT, PUBLISH_ONLINE, SUBSCRIBE>>
       /\ CallbackStep
             => /\ [transport' EXCEPT !.trace = transport.trace] = transport
                /\ UNCHANGED <<dataBuffer, alertCooldowns, currentData,
                               networkReady, lastMQTTPublish, stored, timers,
                               bootVars>>]_vars

\* a session opened in the latest publish cycle, and a command message
\* received on it with a snapshot waiting in the buffer
C27_Witness ==
    /\ mqttConnected(transport)
    /\ MQTT_CONNECT \in Events(transport.trace)
    /\ COMMAND \in Events(transport.trace)
    /\ dataBuffer.count > 0

\* C30: the running sum of squared centred samples never leaves the range
\* of the accumulator, for every sequence of up to 500 samples of the
\* 12-bit converter in either RMS function.
C30_AccumulatorInRange ==
    /\ ~rms.overflowed
    /\ rms.sumSquares >= 0
    /\ rms.sumSquares <= LONG_MAX

\* all 500 samples taken at the rail with the largest square
C30_Witness ==
    /\ rms.fn = "readCurrentRMS"
    /\ rms.i = CURRENT_SAMPLES
    /\ rms.sumSquares = CURRENT_SAMPLES * (ADC_MAX_VALUE - zeroPoint) * (ADC_MAX_VALUE - zeroPoint)

\* the types whose sendSMS failed in a checkAllAlerts call
FailedTypes(chk) == chk.attempted \ chk.notified

\* the types whose condition is Critical in an evaluated snapshot
CriticalTypes(data) ==
    {t \in AlertType :
        \/ /\ t \in {ALERT_VOLTAGE_HIGH, ALERT_VOLTAGE_LOW}
           /\ data.voltage.alertLevel = ALERT_CRITICAL
           /\ checkVoltage(data.voltage.value).isHigh = (t = ALERT_VOLTAGE_HIGH)
        \/ t = ALERT_COMPRESSOR_TEMP /\ data.tempCompressor.alertLevel = ALERT_CRITICAL
        \/ t = ALERT_PRESSURE_HIGH /\ data.pressureHigh.alertLevel = ALERT_CRITICAL
        \/ t = ALERT_PRESSURE_LOW /\ data.pressureLow.alertLevel = ALERT_CRITICAL
        \/ t = ALERT_OVERCURRENT /\ data.current.alertLevel = ALERT_CRITICAL}

\* C31: an acquisition cycle whose notification attempt for a type fails
\* leaves lastAlertTime and alertActive of that type as they were, and the
\* next acquisition cycle in which that type is still Critical attempts the
\* notification again.
C31_FailedAttemptIsRetried ==
    [][acquired' # acquired =>
          /\ \A t \in FailedTypes(lastCheck') :
                /\ alertCooldowns'.lastAlertTime[t] = alertCooldowns.lastAlertTime[t]
                /\ alertCooldowns'.alertActive[t] = alertCooldowns.alertActive[t]
          /\ \A t \in FailedTypes(lastCheck) \cap CriticalTypes(currentData') :
                t \in lastCheck'.attempted]_vars

\* C32: whenever the active transport is CONN_NONE no publish session is
\* connected.
C32_NoneHasNoSession ==
    transport.activeConnection = CONN_NONE => ~mqttConnected(transport)

\* a step that is one loop() iteration of the session specification
IterationStep ==
    \E wifiOk, gprsOk, brokerOk \in BOOLEAN :
       Iteration(wifiOk, gprsOk, brokerOk, TRUE)

\* the link of a path as the iteration observes it
PathUp(t, conn) == LinkUp(t, ClientOf(conn))

\* C33: at the end of every loop() iteration the link of the active
\* transport is connected; an iteration that finds the link of the active
\* transport down ends with the session over that path closed and the path
\* no longer active (CONN_NONE, unless the publish cycle failed over to the
\* other path).
C33_ActiveLinkObservedUp ==
    [][IterationStep =>
          /\ transport'.activeConnection # CONN_NONE =>
                PathUp(transport', transport'.activeConnection)
          /\ (/\ transport.activeConnection # CONN_NONE
              /\ ~PathUp(transport, transport.activeConnection)
              /\ ~PathUp(transport', transport.activeConnection))
                => /\ transport'.activeConnection # transport.activeConnection
                   /\ transport'.session # ClientOf(transport.activeConnection)
                   /\ transport'.activeConnection = CONN_NONE =>
                         ~mqttConnected(transport')]_vars

\* C38: markDataPublished on an empty buffer changes neither head, tail,
\* count nor the overflow flag, and count is never below zero.
C38_CommitOnEmptyIsNoOp ==
    [][/\ (api'.op = "markDataPublished" /\ dataBuffer.count = 0) =>
             /\ dataBuffer'.head = dataBuffer.head
             /\ dataBuffer'.tail = dataBuffer.tail
             /\ dataBuffer'.count = 0
             /\ dataBuffer'.overflow = dataBuffer.overflow
       /\ dataBuffer'.count >= 0]_vars

\* markDataPublished called before anything was ever inserted
C38_Witness ==
    /\ api.op = "markDataPublished"
    /\ acquired = 0
    /\ dataBuffer = initBuffer

\* C39: networkReady is written by setup only: no step of the main loop
\* changes it, and while it is FALSE no step runs the alert evaluator (no
\* gate consulted, no notification attempted, the cooldown table and the
\* record of sent texts untouched) or polls the command channel (no command
\* handled); acquisition, buffering and the publish cycle go on
C39_NetworkReadyOnlyFromSetup ==
    [][/\ networkReady' = networkReady
       /\ ~networkReady =>
             /\ lastCheck'.gate = {}
             /\ lastCheck'.attempted = {}
             /\ alertCooldowns' = alertCooldowns
             /\ sentAt' = sentAt
             /\ sms' = sms]_vars

C39_Witness ==
    /\ ~networkReady
    /\ acquired = MaxCycles
    /\ lastCheck.attempted = {}
    /\ Len(delivered) >= 1
    /\ dataBuffer.count >= 1

\* the types whose cooldown gate an evaluator call consulted
GateTypes(chk) == {g.type : g \in chk.gate}

\* C37: cooldown entries are independent per condition type.  In every
\* evaluator call the time of an entry changes only for a type whose gate
\* was consulted, a notification that was recorded raises the active flag of
\* its own type and of no other, and the active flags of voltage-high and
\* voltage-low are cleared only by a call that finds the voltage severity
\* Ok (which clears both): on Warning and on a move from one critical side
\* to the other they stay as they were
C37_EntriesIndependent ==
    [][acquired' # acquired =>
          /\ \A t \in AlertType \ GateTypes(lastCheck') :
                alertCooldowns'.lastAlertTime[t] = alertCooldowns.lastAlertTime[t]
          /\ \A t \in AlertType \ lastCheck'.notified :
                alertCooldowns'.alertActive[t] => alertCooldowns.alertActive[t]
          /\ \A t \in lastCheck'.notified : alertCooldowns'.alertActive[t]
          /\ \A t \in {ALERT_VOLTAGE_HIGH, ALERT_VOLTAGE_LOW} :
                (alertCooldowns.alertActive[t] /\ ~alertCooldowns'.alertActive[t])
                   => currentData'.voltage.alertLevel = ALERT_OK
          /\ currentData'.voltage.alertLevel = ALERT_OK =>
                /\ ~alertCooldowns'.alertActive[ALERT_VOLTAGE_HIGH]
                /\ ~alertCooldowns'.alertActive[ALERT_VOLTAGE_LOW]]_vars

\* the voltage went from one critical side to the other: both entries are
\* active, each with the time of its own notification
C37_Witness ==
    /\ alertCooldowns.alertActive[ALERT_VOLTAGE_HIGH]
    /\ alertCooldowns.alertActive[ALERT_VOLTAGE_LOW]
    /\ alertCooldowns.lastAlertTime[ALERT_VOLTAGE_HIGH]
          # alertCooldowns.lastAlertTime[ALERT_VOLTAGE_LOW]
    /\ lastCheck.notified = {ALERT_VOLTAGE_LOW}
    /\ currentData.voltage.alertLevel = ALERT_CRITICAL

\* publishBufferedData statement by statement between the acquisition cycles
\* of a site without cellular registration
InitDrain == InitState /\ networkReady = FALSE /\ AfterSetup(setup(FALSE, FALSE, FALSE))

\* a statement of publishBufferedData past its entry
DrainStep ==
    \/ DrainWhile
    \/ \E ok \in BOOLEAN : DrainPublish(ok)
    \/ DrainCommit
    \/ DrainLoop
    \/ DrainReturn

NextDrain ==
    \/ DrainInsert
    \/ \E connected \in BOOLEAN : DrainEnter(connected)
    \/ DrainStep

SpecDrain == InitDrain /\ [][NextDrain]_vars

\* loop() does not stop inside publishBufferedData: a statement that can
\* run does run
SpecDrainLive == InitDrain /\ [][NextDrain]_vars /\ WF_vars(DrainStep)

\* the drain holds an item it has peeked and not yet committed or given up
Holding == draining.pc \in {"publish", "commit"}

\* C34: during a drain the item each commit removes is exactly the item
\* whose delivery just succeeded, and between a peek of the oldest item and
\* its commit nothing else touches the buffer: no insert, no overflow drop,
\* no other change of the ring
C34_CommitRemovesDelivered ==
    [][Holding =>
          /\ acquired' = acquired
          /\ dropped' = dropped
          /\ draining.data = getNextBufferedData(dataBuffer)
          /\ draining.pc = "publish" => dataBuffer' = dataBuffer
          /\ draining.pc = "commit" =>
                /\ draining'.pc = "loop"
                /\ delivered # << >>
                /\ delivered[Len(delivered)] = draining.data
                /\ Contents(dataBuffer) = <<draining.data>> \o Contents(dataBuffer')
                /\ dataBuffer'.overflow = dataBuffer.overflow]_vars

\* a commit in a drain of a ring that was full and had overflowed
C34_Witness ==
    /\ draining.pc = "loop"
    /\ draining.count = BUFFER_SIZE
    /\ draining.published = 2
    /\ dropped # {}
    /\ dataBuffer.count = BUFFER_SIZE - 2
    /\ delivered[Len(delivered)] = acquired - 1

\* C35: no snapshot is delivered successfully more than once.  No item
\* occurs twice among the delivered ones, and an item that was delivered is
\* no longer in the ring, except for the oldest one in the moment between
\* its delivery and its commit, which is the next statement: no other
\* delivery is attempted before it
C35_DeliveredOnce ==
    /\ \A i, j \in 1 .. Len(delivered) : delivered[i] = delivered[j] => i = j
    /\ \A x \in Range(Buffered) \cap Range(delivered) :
          /\ draining.pc = "commit"
          /\ x = draining.data
          /\ x = getNextBufferedData(dataBuffer)
          /\ x = delivered[Len(delivered)]

\* the third delivery has just succeeded and its commit is next
C35_Witness ==
    /\ draining.pc = "commit"
    /\ Len(delivered) = 3
    /\ draining.data \in Range(Buffered)
    /\ dataBuffer.count > 1

\* C36: every drain terminates.  While the loop runs, the items committed
\* and the items left add up to the count at entry and no delivery has
\* failed: an iteration either commits one item, which takes the count down
\* by one, or stops at the failure.  A drain that returns without a failed
\* delivery leaves the buffer empty, and publishBufferedData returns true
\* exactly when the session was connected and no delivery failed.  A drain
\* that has been entered returns
C36_DrainTerminates ==
    /\ [][/\ draining'.pc \in {"while", "publish", "commit", "loop"} =>
                /\ draining'.failed = 0
                /\ dataBuffer'.count + draining'.published = draining'.count
          /\ (draining.pc = "commit") =>
                /\ dataBuffer'.count = dataBuffer.count - 1
                /\ dataBuffer'.count >= 0
          /\ (draining.pc = "publish" /\ draining'.failed > 0) =>
                draining'.pc = "after"
          /\ (draining'.pc = "done" /\ acquired' = acquired) =>
                /\ draining'.result
                      = (draining'.connected /\ draining'.failed = 0)
                /\ draining'.result => dataBuffer'.count = 0
                /\ draining'.failed <= 1]_vars
    /\ (draining.pc \notin {"idle", "done"}) ~> (draining.pc = "done")

\* after a drain that emptied the ring, a drain of a full ring has
\* returned false: one item delivered, the next one failed
C36_Witness ==
    /\ draining.pc = "done"
    /\ draining.count = BUFFER_SIZE
    /\ draining.published = 1
    /\ draining.failed = 1
    /\ ~draining.result
    /\ dataBuffer.count = BUFFER_SIZE - 1
    /\ Len(delivered) = 2

====
